---- MODULE Spec2Model ----
(***************************************************************************)
(* Model of the serverless image API: the four Lambda handlers            *)
(* (upload_image, list_images, get_image, delete_image) running against   *)
(* an S3 bucket and a DynamoDB table.  Every handler invocation is a      *)
(* request slot; each call to a store is one atomic step, so requests     *)
(* interleave between their store calls as concurrent Lambda invocations  *)
(* do.  Every store call may fail (an infrastructure exception).          *)
(***************************************************************************)
EXTENDS Integers, Sequences, FiniteSets, TLC

----------------------------------------------------------------------------
(* Bounds of the model *)

\* number of handler invocations in one behaviour
MaxRequests == 3
\* number of handler invocations running at the same time
MaxConcurrent == 2
\* number of distinct uuid4 values uuid.uuid4() can hand out
MaxImages == 2

----------------------------------------------------------------------------
(* Python values *)

\* Python's None (no string of the model's inputs has this text)
None == "<None>"

\* values that are not strings: the JSON numbers 123 and 0
NumberValue == "<123>"
ZeroValue == "<0>"

\* bool(v): None, "" and 0 are falsy
Truthy(v) == v /= None /\ v /= "" /\ v /= ZeroValue

\* isinstance(v, str)
IsStr(v) == v \notin {None, NumberValue, ZeroValue}

\* a string longer than 128 characters, and one of exactly 128
LongStr == "<129 chars>"
Str128 == "<128 chars>"

\* len(s) for the identifier strings of the model
StrLen(s) ==
    IF s = "" THEN 0 ELSE IF s = LongStr THEN 129 ELSE IF s = Str128 THEN 128 ELSE 2

\* d.get(k): None when the key is missing
DictGet(d, k) == IF k \in DOMAIN d THEN d[k] ELSE None

\* str.lower() on the strings of the model
Lower(s) ==
    CASE s = "TRUE" -> "true"
      [] s = "PNG"  -> "png"
      [] s = "JPG"  -> "jpg"
      [] OTHER      -> s

\* an empty dict
EmptyDict == [k \in {} |-> None]

\* dict with key k removed
DictDel(d, k) == [x \in DOMAIN d \ {k} |-> d[x]]

\* dict d with d[k] = v set
DictSet(d, k, v) == [x \in DOMAIN d \cup {k} |-> IF x = k THEN v ELSE d[x]]

----------------------------------------------------------------------------
(* config.py *)

ALLOWED_EXTENSIONS == {"png", "jpg", "jpeg", "gif", "webp"}
MAX_IMAGE_SIZE_MB == 10
MAX_IMAGE_SIZE_BYTES == MAX_IMAGE_SIZE_MB * 1024 * 1024
DEFAULT_PAGE_SIZE == 20
MAX_PAGE_SIZE == 100

----------------------------------------------------------------------------
(* utils/response_helpers.py *)

create_response(status_code, body) ==
    [statusCode |-> status_code, body |-> body]

create_error_response(status_code, error_message, error_code) ==
    create_response(status_code,
        IF Truthy(error_code)
        THEN [error |-> [message |-> error_message, code |-> error_code]]
        ELSE [error |-> [message |-> error_message]])

create_success_response(data, message, status_code) ==
    create_response(status_code,
        IF Truthy(message)
        THEN [data |-> data, message |-> message]
        ELSE [data |-> data])

\* the handlers' outermost "except Exception" branch
InternalError == create_error_response(500, "Internal server error", "INTERNAL_ERROR")

----------------------------------------------------------------------------
(* utils/validators.py *)

\* each validator returns <<is_valid, error_msg>>
validate_image_id(image_id) ==
    IF ~Truthy(image_id) THEN <<FALSE, "Image ID is required">>
    ELSE IF ~IsStr(image_id) THEN <<FALSE, "Image ID must be a string">>
    ELSE IF StrLen(image_id) > 128 THEN <<FALSE, "Image ID is too long">>
    ELSE <<TRUE, None>>

\* mutant of validate_user_id: 128 characters already too long
validate_user_id_below_128(user_id) ==
    IF ~Truthy(user_id) THEN <<FALSE, "User ID is required">>
    ELSE IF ~IsStr(user_id) THEN <<FALSE, "User ID must be a string">>
    ELSE IF StrLen(user_id) >= 128 THEN <<FALSE, "User ID is too long">>
    ELSE <<TRUE, None>>

validate_user_id(user_id) ==
    IF ~Truthy(user_id) THEN <<FALSE, "User ID is required">>
    ELSE IF ~IsStr(user_id) THEN <<FALSE, "User ID must be a string">>
    ELSE IF StrLen(user_id) > 128 THEN <<FALSE, "User ID is too long">>
    ELSE <<TRUE, None>>

\* filename.rsplit('.', 1)[-1].lower() if '.' in filename else '' ; a filename is
\* the sequence of its dot-separated parts
Extension(filename) ==
    IF Len(filename) > 1 THEN Lower(filename[Len(filename)]) ELSE ""

\* image payloads: <<>> is the empty string, <<"b64", b>> the base64 text of the
\* bytes b, anything else is not base64
IsBase64(image_data) == Len(image_data) = 2 /\ image_data[1] = "b64"
b64decode(image_data) == image_data[2]
b64encode(bytes) == <<"b64", bytes>>

\* len(bytes) of the byte strings of the model
BytesLen(b) ==
    CASE b = "big" -> MAX_IMAGE_SIZE_BYTES + 1
      [] b = "b1"  -> 68
      [] OTHER     -> 70

\* body is the parsed request body; a missing key reads as None
validate_image_file(body) ==
    IF "image_data" \notin DOMAIN body \/ body.image_data = <<>>
    THEN <<FALSE, "Image data is required">>
    ELSE IF "filename" \notin DOMAIN body \/ body.filename = <<>>
    THEN <<FALSE, "Filename is required">>
    ELSE IF Extension(body.filename) \notin ALLOWED_EXTENSIONS
    THEN <<FALSE, "File extension not allowed">>
    ELSE IF ~IsBase64(body.image_data)
    THEN <<FALSE, "Invalid base64 image data">>
    ELSE IF BytesLen(b64decode(body.image_data)) > MAX_IMAGE_SIZE_BYTES
    THEN <<FALSE, "Image size exceeds maximum allowed size">>
    ELSE <<TRUE, None>>

\* a JSON value of the metadata key: [type |-> "null"], [type |-> "str"],
\* [type |-> "dict", v |-> dict]; texts are sequences of characters
MetaFalsy(metadata) ==
    \/ metadata.type = "null"
    \/ metadata.type = "dict" /\ DOMAIN metadata.v = {}
    \/ metadata.type = "str" /\ metadata.text = <<>>

\* mutant of validate_metadata: each limit excluded
validate_metadata_below_limits(metadata) ==
    IF MetaFalsy(metadata) THEN <<TRUE, None>>
    ELSE IF metadata.type /= "dict" THEN <<FALSE, "Metadata must be a dictionary">>
    ELSE IF "title" \in DOMAIN metadata.v /\ Len(metadata.v.title) >= 256
    THEN <<FALSE, "Title must be 256 characters or less">>
    ELSE IF "description" \in DOMAIN metadata.v /\ Len(metadata.v.description) >= 2048
    THEN <<FALSE, "Description must be 2048 characters or less">>
    ELSE IF "tags" \in DOMAIN metadata.v /\ Len(metadata.v.tags) >= 20
    THEN <<FALSE, "Maximum 20 tags allowed">>
    ELSE IF "tags" \in DOMAIN metadata.v
            /\ \E i \in 1..Len(metadata.v.tags) : Len(metadata.v.tags[i]) >= 50
    THEN <<FALSE, "Each tag must be a string of 50 characters or less">>
    ELSE <<TRUE, None>>

\* lines 52-74; the tags of the model are lists of texts, so the two
\* isinstance checks on tags (lines 66, 71) never fail
validate_metadata(metadata) ==
    IF MetaFalsy(metadata) THEN <<TRUE, None>>
    ELSE IF metadata.type /= "dict" THEN <<FALSE, "Metadata must be a dictionary">>
    ELSE IF "title" \in DOMAIN metadata.v /\ Len(metadata.v.title) > 256
    THEN <<FALSE, "Title must be 256 characters or less">>
    ELSE IF "description" \in DOMAIN metadata.v /\ Len(metadata.v.description) > 2048
    THEN <<FALSE, "Description must be 2048 characters or less">>
    ELSE IF "tags" \in DOMAIN metadata.v /\ Len(metadata.v.tags) > 20
    THEN <<FALSE, "Maximum 20 tags allowed">>
    ELSE IF "tags" \in DOMAIN metadata.v
            /\ \E i \in 1..Len(metadata.v.tags) : Len(metadata.v.tags[i]) > 50
    THEN <<FALSE, "Each tag must be a string of 50 characters or less">>
    ELSE <<TRUE, None>>

----------------------------------------------------------------------------
(* State *)

VARIABLES
    table,      \* DynamoDB table: image_id -> item (a dict)
    bucket,     \* S3 bucket: key -> [Body, ContentType]
    usedIds,    \* the uuid4 values handed out so far
    pc,         \* per request: the store call it is about to make
    event,      \* per request: the Lambda event
    local,      \* per request: the handler's local variables
    resp,       \* per request: the response returned (EmptyDict until then)
    calls,      \* per request: the store calls issued, in order, with outcome
    nreq,       \* number of invocations started so far
    listing     \* a client following cursors: the pages it has received so far

vars == <<table, bucket, usedIds, pc, event, local, resp, calls, nreq, listing>>

\* the slots requests run in; a slot whose request has returned takes the next
Procs == 1..MaxConcurrent

IdNames == <<"i1", "i2", "i3", "i4">>
\* the values of str(uuid.uuid4())
ImageIds == {IdNames[n] : n \in 1..MaxImages}

Users == {"A", "B"}

\* one store call in calls[p]
Call(name, ok) == [call |-> name, ok |-> ok]

Issued(p, name) == \E i \in 1..Len(calls[p]) : calls[p][i].call = name
IssuedOk(p, name) == \E i \in 1..Len(calls[p]) : calls[p][i] = Call(name, TRUE)
IssuedFailed(p, name) == \E i \in 1..Len(calls[p]) : calls[p][i] = Call(name, FALSE)
\* a call that the store refuses because of its parameters
Refused(name) == [call |-> name, ok |-> FALSE, refused |-> TRUE]
IssuedRefused(p, name) == \E i \in 1..Len(calls[p]) : calls[p][i] = Refused(name)
Count(p, name) == Cardinality({i \in 1..Len(calls[p]) : calls[p][i].call = name})

\* a new invocation starts in a free slot; slots are interchangeable, so it
\* takes the first free one
Free(p) == pc[p] \in {"idle", "done"}
CanStart(p) ==
    /\ Free(p)
    /\ nreq < MaxRequests
    /\ \A q \in 1..(p - 1) : ~Free(q)

\* requests served one after the other: an invocation starts when none is running
Admit(p) == CanStart(p) /\ \A q \in Procs : Free(q)

\* the invocation in slot p starts with event e
Begin(p, e) ==
    /\ event' = [event EXCEPT ![p] = e]
    /\ calls' = [calls EXCEPT ![p] = <<>>]
    /\ nreq' = nreq + 1

\* the handler goes on to its first store call
Enter(p, label, l) ==
    /\ pc' = [pc EXCEPT ![p] = label]
    /\ resp' = [resp EXCEPT ![p] = EmptyDict]
    /\ local' = [local EXCEPT ![p] = l]

\* the handler returns r before any store call
Reject(p, r) ==
    /\ pc' = [pc EXCEPT ![p] = "done"]
    /\ resp' = [resp EXCEPT ![p] = r]
    /\ local' = [local EXCEPT ![p] = EmptyDict]

\* the handler returns r
Return(p, r) ==
    /\ resp' = [resp EXCEPT ![p] = r]
    /\ pc' = [pc EXCEPT ![p] = "done"]

Goto(p, label) ==
    /\ pc' = [pc EXCEPT ![p] = label]
    /\ UNCHANGED resp

Log(p, name, ok) == calls' = [calls EXCEPT ![p] = Append(@, Call(name, ok))]

Init ==
    /\ table = EmptyDict
    /\ bucket = EmptyDict
    /\ usedIds = {}
    /\ pc = [p \in Procs |-> "idle"]
    /\ event = [p \in Procs |-> EmptyDict]
    /\ local = [p \in Procs |-> EmptyDict]
    /\ resp = [p \in Procs |-> EmptyDict]
    /\ calls = [p \in Procs |-> <<>>]
    /\ nreq = 0
    /\ listing = <<>>

----------------------------------------------------------------------------
(* handlers/delete_image.py *)

\* the events delete_image is invoked with
Event(op, pp, q) == [op |-> op, pathParameters |-> pp, queryStringParameters |-> q]
\* path parameters that name an image, and those validate_image_id refuses
PathParams == {[image_id |-> i] : i \in ImageIds}
BadPathParams == {EmptyDict, [image_id |-> ""], [image_id |-> LongStr]}
DeleteQueries == {EmptyDict} \cup {[user_id |-> u] : u \in Users \cup {""}}
DeleteEvents ==
    {Event("delete", pp, q) : pp \in PathParams, q \in DeleteQueries}
    \cup {Event("delete", pp, q) : pp \in BadPathParams, q \in {EmptyDict, [user_id |-> "A"]}}

\* mutant of DeleteForbidden: the comparison inverted
DeleteForbiddenInverted(user_id, item) ==
    Truthy(user_id) /\ DictGet(item, "user_id") = user_id

\* mutant of DeleteForbidden: the owner compared even when no user_id is given
DeleteForbiddenAlways(user_id, item) ==
    DictGet(item, "user_id") /= user_id

\* mutant of DeleteForbidden: only an absent user_id skips the comparison
DeleteForbiddenUnlessAbsent(user_id, item) ==
    user_id /= None /\ DictGet(item, "user_id") /= user_id

\* item = response['Item'] (line 49), assigned when the lookup found the record
WithItem(l, tbl) ==
    IF l.image_id \in DOMAIN tbl THEN DictSet(l, "item", tbl[l.image_id]) ELSE l

\* the authorization check of delete_image (line 52): TRUE when the request is
\* refused
DeleteForbidden(user_id, item) ==
    Truthy(user_id) /\ DictGet(item, "user_id") /= user_id

\* lines 27-38: read and validate the path parameter
DeleteInvokeWith(p, e) ==
    /\ Begin(p, e)
    /\ LET image_id == DictGet(e.pathParameters, "image_id")
           v == validate_image_id(image_id)
       IN  IF ~v[1]
           THEN Reject(p, create_error_response(400, v[2], "INVALID_IMAGE_ID"))
           ELSE Enter(p, "delete_get_item",
                      [image_id |-> image_id,
                       user_id |-> DictGet(e.queryStringParameters, "user_id")])
    /\ UNCHANGED <<table, bucket, usedIds, listing>>

DeleteInvoke(p) == \E e \in DeleteEvents : DeleteInvokeWith(p, e)

\* mutant of DeleteGate: response['Item'] read without the 'Item' check
DeleteGateUnchecked(image_id, user_id, tbl) ==
    IF image_id \notin DOMAIN tbl
    THEN InternalError
    ELSE IF DeleteForbidden(user_id, tbl[image_id])
    THEN create_error_response(403, "Not authorized to delete this image", "FORBIDDEN")
    ELSE EmptyDict

\* lines 46-53: the gates between the lookup and the deletions; the response
\* that ends the request, or EmptyDict when the request goes on
DeleteGate(image_id, user_id, tbl) ==
    IF image_id \notin DOMAIN tbl
    THEN create_error_response(404, "Image not found", "IMAGE_NOT_FOUND")
    ELSE IF DeleteForbidden(user_id, tbl[image_id])
    THEN create_error_response(403, "Not authorized to delete this image", "FORBIDDEN")
    ELSE EmptyDict

\* mutant of DeleteGetItem: the record is deleted without the blob delete
DeleteGetItemRecordFirst(p) ==
    /\ pc[p] = "delete_get_item"
    /\ \E ok \in BOOLEAN :
        /\ Log(p, "get_item", ok)
        /\ IF ~ok
           THEN Return(p, InternalError) /\ UNCHANGED local
           ELSE LET gate == DeleteGate(local[p].image_id, local[p].user_id, table)
                IN  /\ IF gate /= EmptyDict
                       THEN Return(p, gate)
                       ELSE Goto(p, "delete_delete_item")
                    /\ local' = [local EXCEPT ![p] = WithItem(@, table)]
    /\ UNCHANGED <<table, bucket, usedIds, event, nreq, listing>>

\* lines 44-55: table.get_item, then the gates
DeleteGetItem(p) ==
    /\ pc[p] = "delete_get_item"
    /\ \E ok \in BOOLEAN :
        /\ Log(p, "get_item", ok)
        /\ IF ~ok
           THEN Return(p, InternalError) /\ UNCHANGED local
           ELSE LET gate == DeleteGate(local[p].image_id, local[p].user_id, table)
                IN  /\ IF gate /= EmptyDict
                       THEN Return(p, gate)
                       ELSE Goto(p, "delete_delete_object")
                    /\ local' = [local EXCEPT ![p] = WithItem(@, table)]
    /\ UNCHANGED <<table, bucket, usedIds, event, nreq, listing>>

\* mutant of DeleteDeleteObject: the S3 exception is not caught
DeleteDeleteObjectUncaught(p) ==
    /\ pc[p] = "delete_delete_object"
    /\ \E ok \in BOOLEAN :
        /\ Log(p, "delete_object", ok)
        /\ bucket' = IF ok THEN DictDel(bucket, local[p].item.s3_key) ELSE bucket
        /\ IF ok THEN Goto(p, "delete_delete_item") ELSE Return(p, InternalError)
    /\ UNCHANGED <<table, usedIds, event, local, nreq, listing>>

\* lines 57-66: s3_client.delete_object; an exception is printed and swallowed.
\* Deleting a key that does not exist succeeds.
DeleteDeleteObject(p) ==
    /\ pc[p] = "delete_delete_object"
    /\ \E ok \in BOOLEAN :
        /\ Log(p, "delete_object", ok)
        /\ bucket' = IF ok THEN DictDel(bucket, local[p].item.s3_key) ELSE bucket
    /\ Goto(p, "delete_delete_item")
    /\ UNCHANGED <<table, usedIds, event, local, nreq, listing>>

\* the response of a completed delete (lines 71-77)
DeleteSuccess(image_id) ==
    create_success_response([image_id |-> image_id, deleted |-> TRUE],
                            "Image deleted successfully", 200)

\* mutant of DeleteDeleteItem: the DynamoDB exception is swallowed like the S3 one
DeleteDeleteItemSwallowed(p) ==
    /\ pc[p] = "delete_delete_item"
    /\ \E ok \in BOOLEAN :
        /\ Log(p, "delete_item", ok)
        /\ table' = IF ok THEN DictDel(table, local[p].image_id) ELSE table
        /\ Return(p, DeleteSuccess(local[p].image_id))
    /\ UNCHANGED <<bucket, usedIds, event, local, nreq, listing>>

\* mutant of DeleteDeleteItem: deleting a record that is already gone is an
\* error
DeleteDeleteItemMustExist(p) ==
    /\ pc[p] = "delete_delete_item"
    /\ \E ok \in BOOLEAN :
        /\ Log(p, "delete_item", ok)
        /\ IF ok /\ local[p].image_id \in DOMAIN table
           THEN /\ table' = DictDel(table, local[p].image_id)
                /\ Return(p, DeleteSuccess(local[p].image_id))
           ELSE /\ UNCHANGED table
                /\ Return(p, InternalError)
    /\ UNCHANGED <<bucket, usedIds, event, local, nreq, listing>>

\* lines 68-81: table.delete_item; an exception reaches the outer handler.
\* Deleting a record that does not exist succeeds.
DeleteDeleteItem(p) ==
    /\ pc[p] = "delete_delete_item"
    /\ \E ok \in BOOLEAN :
        /\ Log(p, "delete_item", ok)
        /\ IF ok
           THEN /\ table' = DictDel(table, local[p].image_id)
                /\ Return(p, DeleteSuccess(local[p].image_id))
           ELSE /\ UNCHANGED table
                /\ Return(p, InternalError)
    /\ UNCHANGED <<bucket, usedIds, event, local, nreq, listing>>

----------------------------------------------------------------------------
(* handlers/get_image.py *)

\* json.dumps(body, default=str) of a value read from the table: DynamoDB numbers
\* come back as Decimal, which default=str turns into their text
JsonValue(k, v) == IF k = "file_size" THEN [str |-> v] ELSE v

Downloads == {"true", "TRUE", "false"}
GetQueries ==
    {EmptyDict} \cup {[download |-> d] : d \in Downloads}
    \cup {[user_id |-> "B"]}
    \cup {[download |-> d, user_id |-> "B"] : d \in Downloads}
GetEvents ==
    {Event("get", pp, q) : pp \in PathParams, q \in GetQueries}
    \cup {Event("get", pp, q) : pp \in BadPathParams, q \in {EmptyDict, [download |-> "true"]}}

\* query_params.get('download', 'false').lower() == 'true'
Download(query) ==
    Lower(IF "download" \in DOMAIN query THEN query.download ELSE "false") = "true"

\* lines 27-39
GetInvokeWith(p, e) ==
    /\ Begin(p, e)
    /\ LET image_id == DictGet(e.pathParameters, "image_id")
           v == validate_image_id(image_id)
       IN  IF ~v[1]
           THEN Reject(p, create_error_response(400, v[2], "INVALID_IMAGE_ID"))
           ELSE Enter(p, "get_get_item",
                      [image_id |-> image_id,
                       download |-> Download(e.queryStringParameters)])
    /\ UNCHANGED <<table, bucket, usedIds, listing>>

GetInvoke(p) == \E e \in GetEvents : GetInvokeWith(p, e)

\* mutant of GetGate: the authorization gate of delete_image copied into get
GetGateAuthorized(image_id, query, tbl) ==
    IF image_id \notin DOMAIN tbl
    THEN create_error_response(404, "Image not found", "IMAGE_NOT_FOUND")
    ELSE IF DeleteForbidden(DictGet(query, "user_id"), tbl[image_id])
    THEN create_error_response(403, "Not authorized to view this image", "FORBIDDEN")
    ELSE EmptyDict

\* lines 44-50: the gates between the lookup and the S3 step; the response that
\* ends the request, or EmptyDict when the request goes on.  The query
\* parameters are not read here.
GetGate(image_id, query, tbl) ==
    IF image_id \notin DOMAIN tbl
    THEN create_error_response(404, "Image not found", "IMAGE_NOT_FOUND")
    ELSE EmptyDict

\* mutant of GetGetItem: a failed lookup is tried a second time
GetGetItemRetried(p) ==
    /\ pc[p] = "get_get_item"
    /\ \E ok \in BOOLEAN :
        /\ Log(p, "get_item", ok)
        /\ IF ~ok
           THEN /\ IF calls[p] = <<>> THEN Goto(p, "get_get_item")
                   ELSE Return(p, InternalError)
                /\ UNCHANGED local
           ELSE LET gate == GetGate(local[p].image_id, event[p].queryStringParameters, table)
                IN  /\ IF gate /= EmptyDict
                       THEN Return(p, gate)
                       ELSE Goto(p, IF local[p].download THEN "get_get_object"
                                    ELSE "get_presign")
                    /\ local' = [local EXCEPT ![p] = WithItem(@, table)]
    /\ UNCHANGED <<table, bucket, usedIds, event, nreq, listing>>

\* lines 44-56: table.get_item
GetGetItem(p) ==
    /\ pc[p] = "get_get_item"
    /\ \E ok \in BOOLEAN :
        /\ Log(p, "get_item", ok)
        /\ IF ~ok
           THEN Return(p, InternalError) /\ UNCHANGED local
           ELSE LET gate == GetGate(local[p].image_id, event[p].queryStringParameters, table)
                IN  /\ IF gate /= EmptyDict
                       THEN Return(p, gate)
                       ELSE Goto(p, IF local[p].download THEN "get_get_object"
                                    ELSE "get_presign")
                    /\ local' = [local EXCEPT ![p] = WithItem(@, table)]
    /\ UNCHANGED <<table, bucket, usedIds, event, nreq, listing>>

\* the body of a download response (lines 66-75); it is not wrapped in {data}
DownloadBody(image_id, item, image_data) ==
    [image_id |-> image_id,
     filename |-> item.filename,
     content_type |-> item.content_type,
     image_data |-> b64encode(image_data)]

\* mutant of GetGetObject: NoSuchKey is not told apart from other exceptions
GetGetObjectNoSuchKeyUncaught(p) ==
    /\ pc[p] = "get_get_object"
    /\ \E ok \in BOOLEAN :
        /\ Log(p, "get_object", ok)
        /\ IF ~ok \/ local[p].item.s3_key \notin DOMAIN bucket
           THEN Return(p, InternalError)
           ELSE Return(p, create_response(200,
                    DownloadBody(local[p].image_id, local[p].item,
                                 bucket[local[p].item.s3_key].Body)))
    /\ UNCHANGED <<table, bucket, usedIds, event, local, nreq, listing>>

\* mutant of GetGetObject: the download is returned in the success envelope
GetGetObjectWrapped(p) ==
    /\ pc[p] = "get_get_object"
    /\ \E ok \in BOOLEAN :
        /\ Log(p, "get_object", ok)
        /\ IF ~ok
           THEN Return(p, InternalError)
           ELSE IF local[p].item.s3_key \notin DOMAIN bucket
           THEN Return(p, create_error_response(404,
                    "Image file not found in storage", "FILE_NOT_FOUND"))
           ELSE Return(p, create_success_response(
                    DownloadBody(local[p].image_id, local[p].item,
                                 bucket[local[p].item.s3_key].Body), None, 200))
    /\ UNCHANGED <<table, bucket, usedIds, event, local, nreq, listing>>

\* mutant of GetGetObject: a missing object is returned as empty data
GetGetObjectMissingAsEmpty(p) ==
    /\ pc[p] = "get_get_object"
    /\ \E ok \in BOOLEAN :
        /\ Log(p, "get_object", ok)
        /\ IF ~ok
           THEN Return(p, InternalError)
           ELSE Return(p, create_response(200,
                    DownloadBody(local[p].image_id, local[p].item,
                                 IF local[p].item.s3_key \in DOMAIN bucket
                                 THEN bucket[local[p].item.s3_key].Body ELSE "")))
    /\ UNCHANGED <<table, bucket, usedIds, event, local, nreq, listing>>

\* lines 57-78: s3_client.get_object; NoSuchKey when S3 answers that the key is
\* missing, any other exception reaches the outer handler
GetGetObject(p) ==
    /\ pc[p] = "get_get_object"
    /\ \E ok \in BOOLEAN :
        /\ Log(p, "get_object", ok)
        /\ IF ~ok
           THEN Return(p, InternalError)
           ELSE IF local[p].item.s3_key \notin DOMAIN bucket
           THEN Return(p, create_error_response(404,
                    "Image file not found in storage", "FILE_NOT_FOUND"))
           ELSE Return(p, create_response(200,
                    DownloadBody(local[p].image_id, local[p].item,
                                 bucket[local[p].item.s3_key].Body)))
    /\ UNCHANGED <<table, bucket, usedIds, event, local, nreq, listing>>

\* the fields get_image copies from the item (lines 95-107)
MetadataKeys ==
    {"image_id", "user_id", "filename", "content_type", "file_size", "title",
     "description", "tags", "location", "created_at", "updated_at"}

\* ExpiresIn of the presigned URL (line 88) and url_expires_in (line 114)
URL_EXPIRES_IN == 3600

\* mutant of MetadataResponse: a failed URL generation is a hard error
MetadataResponseHardFail(item, presigned_url) ==
    LET metadata == [k \in MetadataKeys \cap DOMAIN item |-> JsonValue(k, item[k])]
    IN  IF presigned_url = <<>> THEN InternalError
        ELSE create_success_response(
                DictSet(DictSet(metadata, "download_url", presigned_url),
                        "url_expires_in", URL_EXPIRES_IN),
                None, 200)

\* lines 94-116; presigned_url is None when generate_presigned_url raised
MetadataResponse(item, presigned_url) ==
    LET metadata == [k \in MetadataKeys \cap DOMAIN item |-> JsonValue(k, item[k])]
    IN  create_success_response(
            IF presigned_url /= <<>>
            THEN DictSet(DictSet(metadata, "download_url", presigned_url),
                         "url_expires_in", URL_EXPIRES_IN)
            ELSE metadata,
            None, 200)

\* lines 79-116: s3_client.generate_presigned_url, a local signing step that
\* reads no object; <<>> stands for presigned_url = None
GetPresign(p) ==
    /\ pc[p] = "get_presign"
    /\ \E ok \in BOOLEAN :
        /\ Log(p, "generate_presigned_url", ok)
        /\ Return(p, MetadataResponse(local[p].item,
                IF ok THEN <<"https", local[p].item.s3_key, URL_EXPIRES_IN>> ELSE <<>>))
    /\ UNCHANGED <<table, bucket, usedIds, event, local, nreq, listing>>

----------------------------------------------------------------------------
(* handlers/upload_image.py *)

\* mutant of content_type_map: jpg mapped to a type of its own
content_type_map_jpg ==
    [jpg |-> "image/jpg", jpeg |-> "image/jpeg", png |-> "image/png",
     gif |-> "image/gif", webp |-> "image/webp"]

content_type_map ==
    [jpg |-> "image/jpeg", jpeg |-> "image/jpeg", png |-> "image/png",
     gif |-> "image/gif", webp |-> "image/webp"]

\* content_type_map.get(file_extension, 'application/octet-stream')
ContentType(ext) ==
    IF ext \in DOMAIN content_type_map THEN content_type_map[ext]
    ELSE "application/octet-stream"

\* f"images/{user_id}/{image_id}.{file_extension}"
S3Key(user_id, image_id, ext) == <<"images", user_id, image_id, ext>>

\* datetime.utcnow().isoformat() values: texts of digits
NowValues == {<<2, 0>>}

Dict(v) == [type |-> "dict", v |-> v]
Null == [type |-> "null"]

SampleMetadata == Dict([title |-> <<"s", "u", "n">>, tags |-> << <<"x">>, <<"y">> >>])

\* a well-formed body
GoodBody(u) ==
    [image_data |-> b64encode("b1"), filename |-> <<"a", "png">>, user_id |-> u]

\* the parsed bodies upload_image is invoked with
UploadBodies ==
    {GoodBody(u) : u \in Users}
    \cup {DictSet(GoodBody("A"), "metadata", SampleMetadata),
          DictSet(GoodBody("A"), "metadata", Null),
          DictDel(GoodBody("A"), "user_id"),
          DictSet(GoodBody("A"), "filename", <<"a", "txt">>),
          DictSet(GoodBody("B"), "filename", <<"b", "x", "JPG">>)}

\* event['body']: missing, null, a text that is not JSON, or a JSON object
UploadEvents ==
    {[op |-> "upload"], [op |-> "upload", body |-> [type |-> "null"]],
     [op |-> "upload", body |-> [type |-> "text"]]}
    \cup {[op |-> "upload", body |-> Dict(b)] : b \in UploadBodies}

\* the optional fields of db_item (lines 111-119): copied when truthy
OptionalFields(metadata) ==
    [k \in {f \in {"title", "description", "tags", "location"} :
                f \in DOMAIN metadata /\ metadata[f] /= <<>>} |-> metadata[k]]

\* db_item (lines 100-119)
DbItem(l, timestamp) ==
    [image_id |-> l.image_id, user_id |-> l.user_id, s3_key |-> l.s3_key,
     filename |-> l.filename, content_type |-> l.content_type,
     file_size |-> BytesLen(l.decoded_image),
     created_at |-> timestamp, updated_at |-> timestamp]
    @@ OptionalFields(l.metadata.v)

\* lines 61-84: the locals of upload_image once image_id is generated
UploadLocals(body, metadata, image_id) ==
    LET file_extension == Extension(body.filename)
    IN  [image_id |-> image_id,
         user_id |-> body.user_id,
         filename |-> body.filename,
         metadata |-> metadata,
         s3_key |-> S3Key(body.user_id, image_id, file_extension),
         decoded_image |-> b64decode(body.image_data),
         content_type |-> ContentType(file_extension)]

\* a filename that is a JSON number: validate_image_file raises TypeError on
\* "'.' in filename" (validators.py line 27) once image_data and filename are
\* truthy
NumberFilename == <<"<number>">>
ImageFileRaises(body) ==
    /\ "image_data" \in DOMAIN body /\ body.image_data /= <<>>
    /\ "filename" \in DOMAIN body /\ body.filename = NumberFilename

\* lines 37-84: parse, validate, generate the id and the key
UploadInvokeWith(p, e) ==
    /\ Begin(p, e)
    /\ IF "body" \in DOMAIN e /\ e.body.type = "null"
       THEN Reject(p, InternalError) /\ UNCHANGED usedIds
       ELSE IF "body" \in DOMAIN e /\ e.body.type = "text"
       THEN /\ Reject(p, create_error_response(400,
                    "Invalid JSON in request body", "INVALID_JSON"))
            /\ UNCHANGED usedIds
       ELSE
       LET body == IF "body" \in DOMAIN e THEN e.body.v ELSE EmptyDict
           user_id == DictGet(body, "user_id")
           metadata == IF "metadata" \in DOMAIN body THEN body.metadata
                       ELSE Dict(EmptyDict)
           vu == validate_user_id(user_id)
           vf == validate_image_file(body)
           vm == validate_metadata(metadata)
       IN  IF ~vu[1]
           THEN /\ Reject(p, create_error_response(400, vu[2], "INVALID_USER_ID"))
                /\ UNCHANGED usedIds
           ELSE IF ImageFileRaises(body)
           THEN Reject(p, InternalError) /\ UNCHANGED usedIds
           ELSE IF ~vf[1]
           THEN /\ Reject(p, create_error_response(400, vf[2], "INVALID_IMAGE"))
                /\ UNCHANGED usedIds
           ELSE IF ~vm[1]
           THEN /\ Reject(p, create_error_response(400, vm[2], "INVALID_METADATA"))
                /\ UNCHANGED usedIds
           ELSE \E image_id \in ImageIds \ usedIds :
                /\ usedIds' = usedIds \cup {image_id}
                /\ Enter(p, "upload_put_object", UploadLocals(body, metadata, image_id))
    /\ UNCHANGED <<table, bucket, listing>>

UploadInvoke(p) == \E e \in UploadEvents : UploadInvokeWith(p, e)

\* mutant of UploadPutObject: a failed put_object does not stop the upload
UploadPutObjectUnchecked(p) ==
    /\ pc[p] = "upload_put_object"
    /\ \E ok \in BOOLEAN :
        /\ Log(p, "put_object", ok)
        /\ bucket' = IF ok THEN DictSet(bucket, local[p].s3_key,
                                  [Body |-> local[p].decoded_image,
                                   ContentType |-> local[p].content_type])
                      ELSE bucket
        /\ \E timestamp \in NowValues :
               local' = [local EXCEPT ![p] = DictSet(@, "timestamp", timestamp)]
        /\ Goto(p, "upload_put_item")
    /\ UNCHANGED <<table, usedIds, event, nreq, listing>>

\* lines 86-94: s3_client.put_object, then the timestamp
UploadPutObject(p) ==
    /\ pc[p] = "upload_put_object"
    /\ \E ok \in BOOLEAN :
        /\ Log(p, "put_object", ok)
        /\ IF ~ok
           THEN Return(p, InternalError) /\ UNCHANGED <<bucket, local>>
           ELSE /\ bucket' = DictSet(bucket, local[p].s3_key,
                      [Body |-> local[p].decoded_image,
                       ContentType |-> local[p].content_type])
                /\ \E timestamp \in NowValues :
                       local' = [local EXCEPT ![p] = DictSet(@, "timestamp", timestamp)]
                /\ Goto(p, "upload_put_item")
    /\ UNCHANGED <<table, usedIds, event, nreq, listing>>

\* the response of a completed upload (lines 124-133)
UploadSuccess(l) ==
    create_success_response(
        [image_id |-> l.image_id, filename |-> l.filename, s3_key |-> l.s3_key,
         created_at |-> l.timestamp],
        "Image uploaded successfully", 201)

\* lines 96-139: build db_item (metadata.get raises when metadata is not a dict),
\* then table.put_item
UploadPutItem(p) ==
    /\ pc[p] = "upload_put_item"
    /\ IF local[p].metadata.type /= "dict"
       THEN Return(p, InternalError) /\ UNCHANGED <<table, calls>>
       ELSE \E ok \in BOOLEAN :
            /\ Log(p, "put_item", ok)
            /\ IF ~ok
               THEN Return(p, InternalError) /\ UNCHANGED table
               ELSE /\ table' = DictSet(table, local[p].image_id,
                          DbItem(local[p], local[p].timestamp))
                    /\ Return(p, UploadSuccess(local[p]))
    /\ UNCHANGED <<bucket, usedIds, event, local, nreq, listing>>

----------------------------------------------------------------------------
(* handlers/list_images.py *)

\* Texts (titles, tags, locations, parameter values) are sequences of one-
\* character strings; timestamps are sequences of digits.

\* a < b, a = b or a > b for two texts of digits, compared as Python and
\* DynamoDB compare strings: character by character, a prefix first
RECURSIVE LexLeq(_, _)
LexLeq(a, b) ==
    IF a = <<>> THEN TRUE
    ELSE IF b = <<>> THEN FALSE
    ELSE IF a[1] /= b[1] THEN a[1] < b[1]
    ELSE LexLeq(Tail(a), Tail(b))

\* sub occurs in s
IsSubstring(sub, s) ==
    \E i \in 1..(Len(s) - Len(sub) + 1) : SubSeq(s, i, i + Len(sub) - 1) = sub

\* s.split(',')
RECURSIVE Split(_)
Split(s) ==
    IF \A i \in 1..Len(s) : s[i] /= ","
    THEN <<s>>
    ELSE LET i == CHOOSE j \in 1..Len(s) :
                    s[j] = "," /\ \A k \in 1..(j - 1) : s[k] /= ","
         IN  <<SubSeq(s, 1, i - 1)>> \o Split(SubSeq(s, i + 1, Len(s)))

\* s.strip()
RECURSIVE Strip(_)
Strip(s) ==
    IF s = <<>> THEN s
    ELSE IF s[1] = " " THEN Strip(Tail(s))
    ELSE IF s[Len(s)] = " " THEN Strip(SubSeq(s, 1, Len(s) - 1))
    ELSE s

\* boto3.dynamodb.conditions: Attr(a).eq(v), .contains(v), .gte(v), .lte(v),
\* c1 & c2, c1 | c2; NoFilter is filter_expression = None
NoFilter == [op |-> "none"]
Cond(op, attr, val) == [op |-> op, attr |-> attr, val |-> val]
\* mutant of AndWith: the criteria are alternatives
AndWithAsOr(acc, cond) == IF acc = NoFilter THEN cond ELSE [op |-> "or", l |-> acc, r |-> cond]
\* cond if not acc else acc & cond
AndWith(acc, cond) == IF acc = NoFilter THEN cond ELSE [op |-> "and", l |-> acc, r |-> cond]
\* cond if not acc else acc | cond
OrWith(acc, cond) == IF acc = NoFilter THEN cond ELSE [op |-> "or", l |-> acc, r |-> cond]

\* lines 65-70: the condition for any tag of tags_list matching
RECURSIVE TagsCondition(_, _)
TagsCondition(tags_list, acc) ==
    IF tags_list = <<>> THEN acc
    ELSE TagsCondition(Tail(tags_list),
                       OrWith(acc, Cond("contains", "tags", Head(tags_list))))

\* a query parameter is supplied and truthy: a text, or an identifier
Supplied(params, k) == k \in DOMAIN params /\ params[k] /= <<>>
SuppliedId(params, k) == k \in DOMAIN params /\ Truthy(params[k])

\* lines 49-86: the filter expression built from the query parameters
FilterExpression(params) ==
    LET f1 == IF SuppliedId(params, "user_id")
              THEN Cond("eq", "user_id", params.user_id) ELSE NoFilter
        f2 == IF Supplied(params, "title")
              THEN AndWith(f1, Cond("contains", "title", params.title)) ELSE f1
        f3 == IF Supplied(params, "tags")
              THEN LET tags_list == [i \in 1..Len(Split(params.tags)) |->
                                        Strip(Split(params.tags)[i])]
                       tags_condition == TagsCondition(tags_list, NoFilter)
                   IN  IF tags_condition /= NoFilter
                       THEN AndWith(f2, tags_condition) ELSE f2
              ELSE f2
        f4 == IF Supplied(params, "location")
              THEN AndWith(f3, Cond("contains", "location", params.location)) ELSE f3
        f5 == IF Supplied(params, "created_after")
              THEN AndWith(f4, Cond("gte", "created_at", params.created_after)) ELSE f4
        f6 == IF Supplied(params, "created_before")
              THEN AndWith(f5, Cond("lte", "created_at", params.created_before)) ELSE f5
    IN  f6

\* mutant of Eval: the bounds on created_at are exclusive
RECURSIVE EvalExclusiveBounds(_, _)
EvalExclusiveBounds(f, item) ==
    CASE f.op = "none" -> TRUE
      [] f.op = "and"  -> EvalExclusiveBounds(f.l, item) /\ EvalExclusiveBounds(f.r, item)
      [] f.op = "or"   -> EvalExclusiveBounds(f.l, item) \/ EvalExclusiveBounds(f.r, item)
      [] f.op = "eq"   -> f.attr \in DOMAIN item /\ item[f.attr] = f.val
      [] f.op = "gte"  -> f.attr \in DOMAIN item /\ ~LexLeq(item[f.attr], f.val)
      [] f.op = "lte"  -> f.attr \in DOMAIN item /\ ~LexLeq(f.val, item[f.attr])
      [] f.op = "contains" ->
            /\ f.attr \in DOMAIN item
            /\ IF f.attr = "tags"
               THEN \E i \in 1..Len(item.tags) : item.tags[i] = f.val
               ELSE IsSubstring(f.val, item[f.attr])

\* DynamoDB's evaluation of a filter expression on an item: a comparison with a
\* missing attribute is false; contains is membership for a list attribute
\* (tags) and substring for a string attribute
RECURSIVE Eval(_, _)
Eval(f, item) ==
    CASE f.op = "none" -> TRUE
      [] f.op = "and"  -> Eval(f.l, item) /\ Eval(f.r, item)
      [] f.op = "or"   -> Eval(f.l, item) \/ Eval(f.r, item)
      [] f.op = "eq"   -> f.attr \in DOMAIN item /\ item[f.attr] = f.val
      [] f.op = "gte"  -> f.attr \in DOMAIN item /\ LexLeq(f.val, item[f.attr])
      [] f.op = "lte"  -> f.attr \in DOMAIN item /\ LexLeq(item[f.attr], f.val)
      [] f.op = "contains" ->
            /\ f.attr \in DOMAIN item
            /\ IF f.attr = "tags"
               THEN \E i \in 1..Len(item.tags) : item.tags[i] = f.val
               ELSE IsSubstring(f.val, item[f.attr])

\* int(text): <<ok, value>>; digits with an optional sign, anything else raises
\* ValueError
Digits == <<"0", "1", "2", "3", "4", "5", "6", "7", "8", "9">>
IsDigit(c) == \E d \in 1..10 : Digits[d] = c
DigitValue(c) == (CHOOSE d \in 1..10 : Digits[d] = c) - 1
RECURSIVE Natural(_, _)
Natural(text, acc) ==
    IF text = <<>> THEN acc
    ELSE Natural(Tail(text), 10 * acc + DigitValue(Head(text)))
ParseInt(text) ==
    LET body == IF text /= <<>> /\ text[1] \in {"-", "+"} THEN Tail(text) ELSE text
    IN  IF body = <<>> \/ \E i \in 1..Len(body) : ~IsDigit(body[i])
        THEN <<FALSE, 0>>
        ELSE <<TRUE, IF text[1] = "-" THEN 0 - Natural(body, 0) ELSE Natural(body, 0)>>

Min(a, b) == IF a < b THEN a ELSE b

\* json.dumps of a LastEvaluatedKey, as the tokens of the text
JsonDumpsKey(key) == <<"{", "image_id", ":", key.image_id, "}">>

\* json.loads(last_key): [ok |-> FALSE] is JSONDecodeError; a text may be JSON
\* without being a key
JsonLoads(text) ==
    IF Len(text) = 5 /\ text[1] = "{" /\ text[3] = ":" /\ text[5] = "}"
    THEN [ok |-> TRUE, type |-> "dict", v |-> [k \in {text[2]} |-> text[4]]]
    ELSE IF Len(text) = 1 /\ IsDigit(text[1])
    THEN [ok |-> TRUE, type |-> "int"]
    ELSE [ok |-> FALSE]

\* the order in which a scan visits the table's items (their place in the
\* key space)
IdIndex(id) == CHOOSE n \in 1..Len(IdNames) : IdNames[n] = id

\* DynamoDB accepts an ExclusiveStartKey that is a key of the table's schema
ValidStartKey(parsed) ==
    /\ parsed.type = "dict"
    /\ DOMAIN parsed.v = {"image_id"}
    /\ \E n \in 1..Len(IdNames) : IdNames[n] = parsed.v.image_id

\* the ids a scan visits after start (0: from the beginning), in order
RECURSIVE ScanOrder(_, _)
ScanOrder(tbl, start) ==
    LET rest == {id \in DOMAIN tbl : IdIndex(id) > start}
    IN  IF rest = {} THEN <<>>
        ELSE LET first == CHOOSE id \in rest : \A other \in rest : IdIndex(id) <= IdIndex(other)
             IN  <<first>> \o ScanOrder(tbl, IdIndex(first))

\* the items of seq that satisfy the filter, in order
RECURSIVE Matching(_, _, _)
Matching(tbl, ids, f) ==
    IF ids = <<>> THEN <<>>
    ELSE (IF Eval(f, tbl[Head(ids)]) THEN <<tbl[Head(ids)]>> ELSE <<>>)
         \o Matching(tbl, Tail(ids), f)

\* mutant of Scan: a page without a matching item carries no LastEvaluatedKey
ScanEmptyPageEnds(tbl, f, limit, start, lek_at_end) ==
    LET ids == ScanOrder(tbl, start)
        page == SubSeq(ids, 1, Min(limit, Len(ids)))
        base == [Items |-> Matching(tbl, page, f), ScannedCount |-> Len(page)]
    IN  IF Len(page) = limit /\ (Len(ids) > limit \/ lek_at_end) /\ base.Items /= <<>>
        THEN base @@ [LastEvaluatedKey |-> [image_id |-> page[Len(page)]]]
        ELSE base

\* mutant of Scan: the filter is applied before the limit, a page is the next
\* Limit matching items
ScanFilterBeforeLimit(tbl, f, limit, start, lek_at_end) ==
    LET ids == ScanOrder(tbl, start)
        matching == Matching(tbl, ids, f)
        page == SubSeq(matching, 1, Min(limit, Len(matching)))
        base == [Items |-> page, ScannedCount |-> Len(page)]
    IN  IF Len(page) = limit /\ (Len(matching) > limit \/ lek_at_end)
        THEN base @@ [LastEvaluatedKey |-> [image_id |-> page[Len(page)].image_id]]
        ELSE base

\* mutant of Scan: LastEvaluatedKey is the key of the first item read
ScanKeyOfFirstItem(tbl, f, limit, start, lek_at_end) ==
    LET ids == ScanOrder(tbl, start)
        page == SubSeq(ids, 1, Min(limit, Len(ids)))
        base == [Items |-> Matching(tbl, page, f), ScannedCount |-> Len(page)]
    IN  IF Len(page) = limit /\ (Len(ids) > limit \/ lek_at_end)
        THEN base @@ [LastEvaluatedKey |-> [image_id |-> page[1]]]
        ELSE base

\* table.scan(Limit, FilterExpression, ExclusiveStartKey): at most Limit items
\* are read, the filter is applied to the items read.  When the page ends on the
\* table's last item the store may or may not return a LastEvaluatedKey
\* (lek_at_end).
Scan(tbl, f, limit, start, lek_at_end) ==
    LET ids == ScanOrder(tbl, start)
        page == SubSeq(ids, 1, Min(limit, Len(ids)))
        base == [Items |-> Matching(tbl, page, f), ScannedCount |-> Len(page)]
    IN  IF Len(page) = limit /\ (Len(ids) > limit \/ lek_at_end)
        THEN base @@ [LastEvaluatedKey |-> [image_id |-> page[Len(page)]]]
        ELSE base

\* mutant of StripItem: the items are returned as stored
StripItemKeepsKey(item) == [k \in DOMAIN item |-> JsonValue(k, item[k])]
\* lines 108-111 and the serialisation of an item
StripItem(item) == [k \in DOMAIN item \ {"s3_key"} |-> JsonValue(k, item[k])]

\* mutant of ListResponse: has_more does not follow the cursor
ListResponseNeverMore(response) ==
    LET items == [i \in 1..Len(response.Items) |-> StripItem(response.Items[i])]
        result == [images |-> items, count |-> Len(items),
                   scanned_count |-> response.ScannedCount, has_more |-> FALSE]
    IN  create_success_response(
            IF "LastEvaluatedKey" \in DOMAIN response
            THEN result @@ [last_evaluated_key |-> JsonDumpsKey(response.LastEvaluatedKey)]
            ELSE result,
            None, 200)

\* lines 105-126
ListResponse(response) ==
    LET items == [i \in 1..Len(response.Items) |-> StripItem(response.Items[i])]
        result == [images |-> items, count |-> Len(items),
                   scanned_count |-> response.ScannedCount]
    IN  create_success_response(
            IF "LastEvaluatedKey" \in DOMAIN response
            THEN result @@ [last_evaluated_key |-> JsonDumpsKey(response.LastEvaluatedKey),
                            has_more |-> TRUE]
            ELSE result @@ [has_more |-> FALSE],
            None, 200)

\* lines 31-100: read the parameters, build the filter, parse the cursor
ListInvokeWith(p, e) ==
    /\ Begin(p, e)
    /\ LET params == e.queryStringParameters
           limit == IF "limit" \in DOMAIN params THEN ParseInt(params.limit)
                    ELSE <<TRUE, DEFAULT_PAGE_SIZE>>
           cursor == IF Supplied(params, "last_evaluated_key")
                     THEN JsonLoads(params.last_evaluated_key)
                     ELSE [ok |-> TRUE, type |-> "none"]
       IN  IF ~limit[1]
           THEN Reject(p, create_error_response(400, "Invalid parameter value",
                            "INVALID_PARAMETER"))
           ELSE IF ~cursor.ok
           THEN Reject(p, create_error_response(400,
                            "Invalid last_evaluated_key format", "INVALID_PAGINATION"))
           ELSE Enter(p, "list_scan",
                      [limit |-> Min(limit[2], MAX_PAGE_SIZE),
                       filter_expression |-> FilterExpression(params),
                       cursor |-> cursor])
    /\ UNCHANGED <<table, bucket, usedIds, listing>>

\* lines 102-132: table.scan; DynamoDB refuses a Limit below 1 and a malformed
\* ExclusiveStartKey, and the exception reaches the outer handler
ListScan(p) ==
    /\ pc[p] = "list_scan"
    /\ \E ok \in BOOLEAN, lek_at_end \in BOOLEAN :
        LET l == local[p]
            valid == /\ l.limit >= 1
                     /\ l.cursor.type = "none" \/ ValidStartKey(l.cursor)
            start == IF l.cursor.type = "none" THEN 0 ELSE IdIndex(l.cursor.v.image_id)
        IN  IF ~valid
            THEN /\ calls' = [calls EXCEPT ![p] = Append(@, Refused("scan"))]
                 /\ Return(p, InternalError)
            ELSE /\ Log(p, "scan", ok)
                 /\ IF ok
                    THEN Return(p, ListResponse(
                             Scan(table, l.filter_expression, l.limit, start, lek_at_end)))
                    ELSE Return(p, InternalError)
    /\ UNCHANGED <<table, bucket, usedIds, event, local, nreq, listing>>

\* the queries list_images is invoked with between the other requests
ListQueries ==
    {EmptyDict, [user_id |-> "A"], [tags |-> <<"y", ",", "z">>],
     [user_id |-> "B", limit |-> <<"1">>], [limit |-> <<"1">>],
     [limit |-> <<"0">>], [limit |-> <<"x">>],
     [limit |-> <<"1">>, last_evaluated_key |-> JsonDumpsKey([image_id |-> "i1"])],
     [last_evaluated_key |-> <<"{">>], [last_evaluated_key |-> <<"7">>]}
ListEvents == {[op |-> "list", queryStringParameters |-> q] : q \in ListQueries}

ListInvoke(p) == \E e \in ListEvents : ListInvokeWith(p, e)

----------------------------------------------------------------------------
(* The requests *)

\* the handler that the route of an event invokes
Invoke(p, e) ==
    CASE e.op = "upload" -> UploadInvokeWith(p, e)
      [] e.op = "get"    -> GetInvokeWith(p, e)
      [] e.op = "delete" -> DeleteInvokeWith(p, e)
      [] e.op = "list"   -> ListInvokeWith(p, e)

DeleteStart(p) == Admit(p) /\ DeleteInvoke(p)
GetStart(p) == Admit(p) /\ GetInvoke(p)
UploadStart(p) == Admit(p) /\ UploadInvoke(p)
ListStart(p) == Admit(p) /\ ListInvoke(p)

Next ==
    \E p \in Procs :
        \/ UploadStart(p)
        \/ UploadPutObject(p)
        \/ UploadPutItem(p)
        \/ GetStart(p)
        \/ GetGetItem(p)
        \/ GetGetObject(p)
        \/ GetPresign(p)
        \/ DeleteStart(p)
        \/ DeleteGetItem(p)
        \/ DeleteDeleteObject(p)
        \/ DeleteDeleteItem(p)
        \/ ListStart(p)
        \/ ListScan(p)

Spec == Init /\ [][Next]_vars

----------------------------------------------------------------------------
(* Reading a populated store: list_images and get_image over the tables that
   uploads leave behind *)

\* number of images in the populated store
MaxSeeded == 3

SeededIds == {IdNames[n] : n \in 1..MaxSeeded}

\* the uploads that populated the store: user, metadata, time of upload
SeedUploads ==
    { [user_id |-> "A", created_at |-> <<1>>,
       metadata |-> [tags |-> << <<"x">> >>, title |-> <<"a", "b">>,
                     location |-> <<"p", "q">>]],
      [user_id |-> "B", created_at |-> <<1, 5>>,
       metadata |-> [tags |-> << <<"y">> >>]],
      [user_id |-> "A", created_at |-> <<2>>,
       metadata |-> [tags |-> << <<"x">>, <<"y">> >>, title |-> <<"b">>,
                     location |-> <<"q">>]],
      [user_id |-> "B", created_at |-> <<2>>,
       metadata |-> [title |-> <<"b", "a">>, description |-> <<"d">>]] }

\* the item upload_image writes for such an upload
SeedItem(image_id, u) ==
    DbItem(UploadLocals(GoodBody(u.user_id), Dict(u.metadata), image_id), u.created_at)

\* the tables: every image is absent or was written by one of the uploads
SeededTables ==
    UNION { { [id \in ids |-> SeedItem(id, choice[id])] : choice \in [ids -> SeedUploads] }
            : ids \in SUBSET SeededIds }

\* the bucket holding the blob of every item of tbl
BlobsOf(tbl) ==
    [key \in {tbl[id].s3_key : id \in DOMAIN tbl} |->
        [Body |-> "b1", ContentType |-> "image/png"]]

ReadInit ==
    /\ table \in SeededTables
    /\ bucket = BlobsOf(table)
    /\ usedIds = DOMAIN table
    /\ pc = [p \in Procs |-> "idle"]
    /\ event = [p \in Procs |-> EmptyDict]
    /\ local = [p \in Procs |-> EmptyDict]
    /\ resp = [p \in Procs |-> EmptyDict]
    /\ calls = [p \in Procs |-> <<>>]
    /\ nreq = 0
    /\ listing = <<>>

\* the filters: every combination of the six criteria
ReadFilters ==
    { [k \in keys |-> all[k]] :
        keys \in SUBSET {"user_id", "title", "location", "created_after", "created_before"},
        all \in { [user_id |-> "A", title |-> <<"a">>, location |-> <<"q">>,
                   created_after |-> <<1, 5>>, created_before |-> <<1, 5>>] } }
\* values of last_evaluated_key that no response carried: a text that is not
\* JSON, JSON that is not an object, an object that is not a key of the table,
\* the empty text
MalformedCursors ==
    {<<"{">>, <<"7">>, <<"{", "foo", ":", "i1", "}">>, <<>>}
\* values of limit: above the maximum, zero, negative, not a number
OtherLimits == {<<"1", "5", "0">>, <<"0">>, <<"-", "1">>, <<"x">>}
ReadTags == {<<"x", ",", "y">>, <<"y">>, <<" ", "z", ",", " ", "x">>, <<>>}
ReadListQueries ==
    ReadFilters
    \cup {f @@ [tags |-> t] : f \in ReadFilters, t \in ReadTags}
    \cup {[limit |-> <<"2">>], [limit |-> <<"1">>, user_id |-> "B"],
          [limit |-> <<"1">>, last_evaluated_key |-> JsonDumpsKey([image_id |-> "i1"])],
          [limit |-> <<"2">>, tags |-> <<"y">>,
           last_evaluated_key |-> JsonDumpsKey([image_id |-> "i1"])]}
    \cup {[last_evaluated_key |-> c] : c \in MalformedCursors}
    \cup {[limit |-> l] : l \in OtherLimits}
ReadListEvents == {[op |-> "list", queryStringParameters |-> q] : q \in ReadListQueries}

ReadGetEvents ==
    {Event("get", [image_id |-> i], q) :
        i \in SeededIds,
        q \in {EmptyDict, [download |-> "true"], [download |-> "TRUE", user_id |-> "B"]}}

\* one request reads the store
Once(p) == p = 1 /\ pc[p] = "idle"

ReadListStart(p) == Once(p) /\ \E e \in ReadListEvents : ListInvokeWith(p, e)
ReadGetStart(p) == Once(p) /\ \E e \in ReadGetEvents : GetInvokeWith(p, e)

ReadNext ==
    \E p \in Procs :
        \/ ReadListStart(p)
        \/ ListScan(p)
        \/ ReadGetStart(p)
        \/ GetGetItem(p)
        \/ GetGetObject(p)
        \/ GetPresign(p)

SpecRead == ReadInit /\ [][ReadNext]_vars

----------------------------------------------------------------------------
(* A client paging through a populated store: it lists with a limit and
   resubmits the request with each cursor it is given *)

PageLimits == {<<"1">>, <<"2">>}
PageFilters == {EmptyDict, [user_id |-> "A"], [tags |-> <<"y">>]}
PageEvents ==
    {[op |-> "list", queryStringParameters |-> f @@ [limit |-> l]] :
        f \in PageFilters, l \in PageLimits}

\* the ids of the images of a list response
PageIds(r) == [i \in 1..Len(r.body.data.images) |-> r.body.data.images[i].image_id]

\* the first request
PageStart(p) ==
    /\ p = 1 /\ pc[p] = "idle"
    /\ \E e \in PageEvents : ListInvokeWith(p, e)

\* the client reads a successful response
PageCollect(p) ==
    /\ pc[p] = "done"
    /\ Len(listing) < nreq
    /\ resp[p].statusCode = 200
    /\ listing' = Append(listing, PageIds(resp[p]))
    /\ UNCHANGED <<table, bucket, usedIds, pc, event, local, resp, calls, nreq>>

\* the client resubmits its request with the cursor of the response it read
PageFollow(p) ==
    /\ pc[p] = "done"
    /\ Len(listing) = nreq
    /\ nreq > 0
    /\ resp[p].body.data.has_more
    /\ ListInvokeWith(p,
          [event[p] EXCEPT !.queryStringParameters =
              DictSet(@, "last_evaluated_key", resp[p].body.data.last_evaluated_key)])

PageNext ==
    \E p \in Procs :
        \/ PageStart(p)
        \/ ListScan(p)
        \/ PageCollect(p)
        \/ PageFollow(p)

SpecPage == ReadInit /\ [][PageNext]_vars

\* a handler that was invoked runs to its return, and the client goes on reading
\* and resubmitting as long as it is given a cursor
SpecPageFair == SpecPage /\ WF_vars(PageNext)

----------------------------------------------------------------------------
(* Uploads with every kind of body: the validation gate of upload_image *)

\* a text of n characters
TextOf(n) == [i \in 1..n |-> "t"]

\* metadata values at the limits of validate_metadata: every field at its
\* limit, and each field one past it
LimitMetadata ==
    {Dict([title |-> TextOf(256), description |-> TextOf(2048),
           tags |-> [i \in 1..20 |-> TextOf(50)]]),
     Dict([title |-> TextOf(256)]),
     Dict([description |-> TextOf(2048)]),
     Dict([tags |-> [i \in 1..20 |-> <<"x">>]]),
     Dict([tags |-> <<TextOf(50)>>]),
     Dict([title |-> TextOf(257)]),
     Dict([description |-> TextOf(2049)]),
     Dict([tags |-> [i \in 1..21 |-> <<"x">>]]),
     Dict([tags |-> <<TextOf(51)>>]),
     Dict([tags |-> << <<"x">>, TextOf(51) >>])}

\* metadata values: absent in its several forms, not an object, at and over the
\* limits
GateMetadata ==
    LimitMetadata \cup
    {Null, Dict(EmptyDict), [type |-> "str", text |-> <<>>],
     [type |-> "str", text |-> <<"a">>],
     SampleMetadata}

GateBodies ==
    {GoodBody("A"), GoodBody("B"),
     DictSet(GoodBody("A"), "user_id", ""),
     DictSet(GoodBody("A"), "user_id", LongStr),
     DictDel(GoodBody("A"), "image_data"),
     DictSet(GoodBody("A"), "image_data", <<>>),
     DictSet(GoodBody("A"), "image_data", <<"junk">>),
     DictSet(GoodBody("A"), "image_data", b64encode("big")),
     DictSet(GoodBody("A"), "filename", <<>>),
     DictSet(GoodBody("A"), "filename", <<"a", "txt">>),
     DictSet(GoodBody("A"), "filename", <<"noextension">>),
     DictSet(GoodBody("A"), "filename", NumberFilename),
     DictDel(DictDel(GoodBody("A"), "user_id"), "filename"),
     DictSet(DictSet(GoodBody("A"), "filename", <<"a", "txt">>), "metadata",
             Dict([title |-> TextOf(257)]))}
    \cup {DictSet(GoodBody("A"), "metadata", m) : m \in GateMetadata}

GateEvents ==
    {[op |-> "upload"], [op |-> "upload", body |-> [type |-> "null"]],
     [op |-> "upload", body |-> [type |-> "text"]]}
    \cup {[op |-> "upload", body |-> Dict(b)] : b \in GateBodies}

GateUploadStart(p) == Admit(p) /\ \E e \in GateEvents : UploadInvokeWith(p, e)

UploadNext ==
    \E p \in Procs :
        \/ GateUploadStart(p)
        \/ UploadPutObject(p)
        \/ UploadPutItem(p)

SpecUpload == Init /\ [][UploadNext]_vars

----------------------------------------------------------------------------
(* An upload followed by reads of the image it created *)

\* the byte strings and the filenames that are uploaded
RoundBytes == {"b1", "b2", "b3"}
RoundFilenames ==
    {<<"a", "png">>, <<"b", "x", "JPG">>, <<"c", "jpeg">>, <<"d", "gif">>,
     <<"e", "webp">>, <<"f", "PNG">>}
RoundBodies ==
    {[image_data |-> b64encode(b), filename |-> f, user_id |-> u] :
        b \in RoundBytes, f \in RoundFilenames, u \in Users}
RoundEvents == {[op |-> "upload", body |-> Dict(b)] : b \in RoundBodies}

\* the upload runs in slot 1, once
RoundUploadStart(p) ==
    /\ p = 1
    /\ pc[p] = "idle"
    /\ nreq < MaxRequests
    /\ \E e \in RoundEvents : UploadInvokeWith(p, e)

\* the upload has answered 201; the image_id of its response
Uploaded == pc[1] = "done" /\ resp[1].statusCode = 201
Returned == resp[1].body.data.image_id

\* the reads run in slot 2, one after the other, once the upload has answered
RoundGetStart(p) ==
    /\ p = 2
    /\ Free(p)
    /\ nreq < MaxRequests
    /\ Uploaded
    /\ \E id \in ImageIds, q \in {EmptyDict} \cup {[download |-> d] : d \in Downloads} :
           GetInvokeWith(p, Event("get", [image_id |-> id], q))

RoundNext ==
    \E p \in Procs :
        \/ RoundUploadStart(p)
        \/ UploadPutObject(p)
        \/ UploadPutItem(p)
        \/ RoundGetStart(p)
        \/ GetGetItem(p)
        \/ GetGetObject(p)
        \/ GetPresign(p)

SpecRound == Init /\ [][RoundNext]_vars

----------------------------------------------------------------------------
(* Requests with every kind of identifier: absent, empty, not a string, of
   ordinary length, of exactly 128 characters, longer *)

IdValues == {None, "", "A", "i1", Str128, LongStr, NumberValue, ZeroValue}

\* a dict that carries k unless the value is absent
WithKey(d, k, v) == IF v = None THEN DictDel(d, k) ELSE DictSet(d, k, v)

IdEvents ==
    {Event("get", WithKey(EmptyDict, "image_id", v), q) :
        v \in IdValues, q \in {EmptyDict, [download |-> "true"]}}
    \cup {Event("delete", WithKey(EmptyDict, "image_id", v), q) :
        v \in IdValues, q \in {EmptyDict, [user_id |-> "A"]}}
    \cup {[op |-> "upload", body |-> Dict(WithKey(GoodBody("A"), "user_id", v))] :
        v \in IdValues}

IdStart(p) == Admit(p) /\ \E e \in IdEvents : Invoke(p, e)

IdNext ==
    \E p \in Procs :
        \/ IdStart(p)
        \/ UploadPutObject(p)
        \/ UploadPutItem(p)
        \/ GetGetItem(p)
        \/ GetGetObject(p)
        \/ GetPresign(p)
        \/ DeleteGetItem(p)
        \/ DeleteDeleteObject(p)
        \/ DeleteDeleteItem(p)

SpecIds == Init /\ [][IdNext]_vars

----------------------------------------------------------------------------
(* Concurrent invocations: uploads, downloads and deletes of the same images
   interleave between their store calls *)

\* what each user uploads: A the bytes b1, B the bytes b2
RaceBody(u) ==
    [image_data |-> b64encode(IF u = "A" THEN "b1" ELSE "b2"),
     filename |-> <<"a", "png">>, user_id |-> u]

RaceEvents ==
    {[op |-> "upload", body |-> Dict(RaceBody(u))] : u \in Users}
    \cup {Event("get", pp, [download |-> "true"]) : pp \in PathParams}
    \cup {Event("delete", pp, q) : pp \in PathParams, q \in {EmptyDict, [user_id |-> "B"]}}

\* an invocation starts whenever a slot is free, whatever the others are doing;
\* downloads and deletes address the images that an upload was started for
RaceStart(p) ==
    /\ CanStart(p)
    /\ \E e \in RaceEvents :
        /\ IF e.op = "upload" THEN TRUE ELSE e.pathParameters.image_id \in usedIds
        /\ Invoke(p, e)

RaceNext ==
    \E p \in Procs :
        \/ RaceStart(p)
        \/ UploadPutObject(p)
        \/ UploadPutItem(p)
        \/ GetGetItem(p)
        \/ GetGetObject(p)
        \/ DeleteGetItem(p)
        \/ DeleteDeleteObject(p)
        \/ DeleteDeleteItem(p)

SpecRace == Init /\ [][RaceNext]_vars

----------------------------------------------------------------------------
(* Concurrent uploads, no other operation *)

UploadRaceStart(p) == CanStart(p) /\ UploadInvoke(p)

UploadRaceNext ==
    \E p \in Procs :
        \/ UploadRaceStart(p)
        \/ UploadPutObject(p)
        \/ UploadPutItem(p)

SpecUploadRace == Init /\ [][UploadRaceNext]_vars

----------------------------------------------------------------------------
(* Vocabulary of the properties *)

Done(p) == pc[p] = "done"
Running(p, op) == pc[p] /= "idle" /\ event[p].op = op
Finished(p, op) == Done(p) /\ event[p].op = op

\* the reason code of a response, None when it carries none
ReasonCode(r) ==
    IF "error" \in DOMAIN r.body /\ "code" \in DOMAIN r.body.error
    THEN r.body.error.code ELSE None
IsError(r, status, code) == r.statusCode = status /\ ReasonCode(r) = code

\* what the request asked for, read from its event
PathId(p) == DictGet(event[p].pathParameters, "image_id")
QueryUser(p) == DictGet(event[p].queryStringParameters, "user_id")

\* request p takes the step in which its point lookup returns
LookupReturns(p, label) ==
    pc[p] = label /\ calls'[p] = Append(calls[p], Call("get_item", TRUE))

\* the record request p found at its lookup
Found(p) == IssuedOk(p, "get_item") /\ "item" \in DOMAIN local[p]

StoresUnchanged == table' = table /\ bucket' = bucket

----------------------------------------------------------------------------
(* delete_image *)

\* C1: when the lookup of a delete finds the record and the request carries a
\* (non-empty) user_id that differs from the record's owner, the request ends
\* there with 403 FORBIDDEN; the lookup is the only store call it has issued and
\* the table and the bucket are the same after the step as before it.
C1_ForbiddenDeleteChangesNothing ==
    [][\A p \in Procs :
        (/\ LookupReturns(p, "delete_get_item")
         /\ PathId(p) \in DOMAIN table
         /\ Truthy(QueryUser(p))
         /\ table[PathId(p)].user_id /= QueryUser(p))
        => /\ pc'[p] = "done"
           /\ IsError(resp'[p], 403, "FORBIDDEN")
           /\ calls'[p] = <<Call("get_item", TRUE)>>
           /\ StoresUnchanged]_vars

C1_Witness ==
    \E p \in Procs :
        /\ Finished(p, "delete")
        /\ IsError(resp[p], 403, "FORBIDDEN")
        /\ PathId(p) \in DOMAIN table
        /\ table[PathId(p)].user_id /= QueryUser(p)
        /\ table[PathId(p)].s3_key \in DOMAIN bucket

\* C3: a delete that carries no user_id and finds the record is never refused,
\* whoever owns the record: unless the record delete itself fails (C6), it
\* answers 200 with {image_id, deleted: true} and the record is absent from the
\* table when it returns.
C3_DeleteWithoutUserId ==
    \A p \in Procs :
        (/\ Finished(p, "delete")
         /\ "user_id" \notin DOMAIN event[p].queryStringParameters
         /\ Found(p))
        => IF IssuedFailed(p, "delete_item")
           THEN IsError(resp[p], 500, "INTERNAL_ERROR")
           ELSE /\ resp[p].statusCode = 200
                /\ resp[p].body.data = [image_id |-> PathId(p), deleted |-> TRUE]
                /\ PathId(p) \notin DOMAIN table

C3_Witness ==
    \E p \in Procs :
        /\ Finished(p, "delete")
        /\ "user_id" \notin DOMAIN event[p].queryStringParameters
        /\ Found(p)
        /\ local[p].item.user_id = "B"
        /\ resp[p].statusCode = 200
        /\ PathId(p) \notin DOMAIN table

\* C4: when the lookup of a delete finds no record for image_id, the request
\* ends there with 404 IMAGE_NOT_FOUND (not 500), the lookup is the only store
\* call it has issued, and the table and the bucket are unchanged.
C4_DeleteOfMissingRecord ==
    [][\A p \in Procs :
        (LookupReturns(p, "delete_get_item") /\ PathId(p) \notin DOMAIN table)
        => /\ pc'[p] = "done"
           /\ IsError(resp'[p], 404, "IMAGE_NOT_FOUND")
           /\ calls'[p] = <<Call("get_item", TRUE)>>
           /\ StoresUnchanged]_vars

\* (the record was there and an earlier delete removed it)
C4_Witness ==
    \E p \in Procs :
        /\ Finished(p, "delete")
        /\ IsError(resp[p], 404, "IMAGE_NOT_FOUND")
        /\ PathId(p) \in usedIds

\* C5: once a delete has attempted the blob delete, whatever its outcome, it
\* goes on to the record delete: a failed blob delete is swallowed.  Unless the
\* record delete itself fails (C6) the response is 200 with deleted = true and
\* the record is absent when the request returns; the blob may remain.
C5_BlobDeleteFailureTolerated ==
    \A p \in Procs :
        (Running(p, "delete") /\ Issued(p, "delete_object"))
        => \/ pc[p] = "delete_delete_item"
           \/ /\ Done(p)
              /\ Count(p, "delete_item") = 1
              /\ IF IssuedOk(p, "delete_item")
                 THEN /\ resp[p].statusCode = 200
                      /\ resp[p].body.data.deleted = TRUE
                      /\ PathId(p) \notin DOMAIN table
                 ELSE IsError(resp[p], 500, "INTERNAL_ERROR")

\* (the orphan: the blob delete failed, the delete succeeded, the blob remains)
C5_Witness ==
    \E p \in Procs :
        /\ Finished(p, "delete")
        /\ IssuedFailed(p, "delete_object")
        /\ resp[p].statusCode = 200
        /\ PathId(p) \notin DOMAIN table
        /\ local[p].item.s3_key \in DOMAIN bucket

\* C6: a delete whose record delete fails answers 500 INTERNAL_ERROR and no
\* {deleted: true}, whether or not the blob delete before it succeeded; a
\* delete answers 200 only when its record delete succeeded.
C6_RecordDeleteFailurePropagates ==
    \A p \in Procs :
        Finished(p, "delete")
        => /\ IssuedFailed(p, "delete_item")
                => /\ IsError(resp[p], 500, "INTERNAL_ERROR")
                   /\ "data" \notin DOMAIN resp[p].body
           /\ resp[p].statusCode = 200 => IssuedOk(p, "delete_item")

\* (the blob was deleted, the record delete failed: a record without its blob)
C6_Witness ==
    \E p \in Procs :
        /\ Finished(p, "delete")
        /\ IssuedOk(p, "delete_object")
        /\ IssuedFailed(p, "delete_item")
        /\ PathId(p) \in DOMAIN table
        /\ table[PathId(p)].s3_key \notin DOMAIN bucket

----------------------------------------------------------------------------
(* get_image *)

\* the request asks for the image bytes: download=true in any letter case
WantsDownload(p) ==
    /\ "download" \in DOMAIN event[p].queryStringParameters
    /\ event[p].queryStringParameters.download \in {"true", "TRUE"}

\* the request carries a user_id that is not the owner of the record it found
ForeignIdentity(p) ==
    /\ Found(p)
    /\ Truthy(QueryUser(p))
    /\ local[p].item.user_id /= QueryUser(p)

C7_NotFoundCasesDistinguished ==
    [][\A p \in Procs :
        /\ (/\ LookupReturns(p, "get_get_item")
            /\ WantsDownload(p)
            /\ PathId(p) \notin DOMAIN table)
           => /\ pc'[p] = "done"
              /\ IsError(resp'[p], 404, "IMAGE_NOT_FOUND")
              /\ calls'[p] = <<Call("get_item", TRUE)>>
        /\ (/\ pc[p] = "get_get_object"
            /\ calls'[p] = Append(calls[p], Call("get_object", TRUE))
            /\ local[p].item.s3_key \notin DOMAIN bucket)
           => /\ pc'[p] = "done"
              /\ WantsDownload(p)
              /\ IsError(resp'[p], 404, "FILE_NOT_FOUND")]_vars

C7_Witness ==
    \E p \in Procs :
        /\ Finished(p, "get")
        /\ WantsDownload(p)
        /\ PathId(p) \in DOMAIN table
        /\ IsError(resp[p], 404, "FILE_NOT_FOUND")

\* the record as get_image returns it: the item's fields without s3_key, the
\* number file_size as text
ReturnsMetadataOf(data, item) ==
    /\ DOMAIN data \ {"download_url", "url_expires_in"} = DOMAIN item \ {"s3_key"}
    /\ \A k \in DOMAIN item \ {"s3_key", "file_size"} : data[k] = item[k]
    /\ data.file_size = [str |-> item.file_size]

\* C8: a get without download=true that found the record never calls
\* get_object and answers 200 with the record's metadata; with download_url and
\* url_expires_in = 3600 when the URL was generated, and with exactly the same
\* metadata and neither URL field when the generation failed.
C8_MetadataWithSoftFailingUrl ==
    \A p \in Procs :
        (Finished(p, "get") /\ ~WantsDownload(p) /\ Found(p))
        => /\ ~Issued(p, "get_object")
           /\ resp[p].statusCode = 200
           /\ ReturnsMetadataOf(resp[p].body.data, table[PathId(p)])
           /\ IF IssuedOk(p, "generate_presigned_url")
              THEN /\ "download_url" \in DOMAIN resp[p].body.data
                   /\ resp[p].body.data.url_expires_in = 3600
              ELSE /\ "download_url" \notin DOMAIN resp[p].body.data
                   /\ "url_expires_in" \notin DOMAIN resp[p].body.data

\* (the URL generation failed; the parameter is absent)
C8_Witness ==
    \E p \in Procs :
        /\ Finished(p, "get")
        /\ "download" \notin DOMAIN event[p].queryStringParameters
        /\ IssuedFailed(p, "generate_presigned_url")
        /\ resp[p].statusCode = 200
        /\ "title" \in DOMAIN resp[p].body.data

----------------------------------------------------------------------------
(* The records that list_images and get_image return *)

\* the records of a response: the images of a listing, the data of a metadata
\* read, the body of a download; an error carries none
Records(r) ==
    IF r.statusCode /= 200 THEN {}
    ELSE IF "data" \notin DOMAIN r.body THEN {r.body}
    ELSE IF "images" \in DOMAIN r.body.data
    THEN {r.body.data.images[i] : i \in 1..Len(r.body.data.images)}
    ELSE {r.body.data}

\* C9: no response of list_images or get_image carries the field s3_key in a
\* returned record, whatever the store holds, whatever the filters and the
\* page, and in both modes of get.  (The field is absent; the signed URL of a
\* metadata read still addresses the object.)
C9_StorageKeyNeverReturned ==
    \A p \in Procs :
        (Done(p) /\ event[p].op \in {"list", "get"})
        => \A record \in Records(resp[p]) : "s3_key" \notin DOMAIN record

\* (a filtered second page returning a stored record)
C9_Witness ==
    \E p \in Procs :
        /\ Finished(p, "list")
        /\ {"tags", "last_evaluated_key"} \subseteq DOMAIN event[p].queryStringParameters
        /\ \E record \in Records(resp[p]) :
              "s3_key" \in DOMAIN table[record.image_id]

\* the criterion k of a listing is supplied (and not empty)
Criterion(p, k) ==
    /\ k \in DOMAIN event[p].queryStringParameters
    /\ IF k = "user_id" THEN event[p].queryStringParameters[k] /= ""
       ELSE event[p].queryStringParameters[k] /= <<>>

\* the comma-separated candidates of the tags criterion
Candidates(tags) == {Strip(Split(tags)[i]) : i \in 1..Len(Split(tags))}

\* the item satisfies every criterion that the listing p supplied
Accepts(p, item) ==
    LET q == event[p].queryStringParameters
    IN  /\ Criterion(p, "user_id") => item.user_id = q.user_id
        /\ Criterion(p, "title")
            => "title" \in DOMAIN item /\ IsSubstring(q.title, item.title)
        /\ Criterion(p, "location")
            => "location" \in DOMAIN item /\ IsSubstring(q.location, item.location)
        /\ Criterion(p, "created_after") => LexLeq(q.created_after, item.created_at)
        /\ Criterion(p, "created_before") => LexLeq(item.created_at, q.created_before)
        /\ Criterion(p, "tags")
            => /\ "tags" \in DOMAIN item
               /\ \E c \in Candidates(q.tags) :
                     \E i \in 1..Len(item.tags) : item.tags[i] = c

\* the ids of the records the page of listing p scanned, given its answer
Scanned(p, data) ==
    LET start == IF local[p].cursor.type = "none" THEN 0
                 ELSE IdIndex(local[p].cursor.v.image_id)
        ids == ScanOrder(table, start)
    IN  {ids[i] : i \in 1..data.scanned_count}

----------------------------------------------------------------------------
(* Pagination *)

\* the images of the pages, one after the other
RECURSIVE Flatten(_)
Flatten(pages) == IF pages = <<>> THEN <<>> ELSE Head(pages) \o Flatten(Tail(pages))

\* the ids among ids, in order, whose record the listing p accepts
AcceptedOf(p, ids) == SelectSeq(ids, LAMBDA id : Accepts(p, table[id]))

\* the ids a scan would visit from the cursor of listing p on
FromCursor(p) ==
    ScanOrder(table, IF local[p].cursor.type = "none" THEN 0
                     ELSE IdIndex(local[p].cursor.v.image_id))

\* a successful answer to listing p
Listed(p) == Finished(p, "list") /\ resp[p].statusCode = 200

\* the client of listing p has read a last page
ChainEnded(p) == Listed(p) /\ Len(listing) = nreq /\ ~resp[p].body.data.has_more

\* C11 as stated: a listing with limit L over more than L matching records
\* returns exactly L records with has_more and a non-empty cursor.
C11_ExactlyLimitMatchingRecords ==
    \A p \in Procs :
        (Listed(p) /\ Len(AcceptedOf(p, FromCursor(p))) > local[p].limit)
        => /\ resp[p].body.data.count = local[p].limit
           /\ resp[p].body.data.has_more
           /\ resp[p].body.data.last_evaluated_key /= <<>>

\* C11 (amended): a page is the matching records among the next L records
\* scanned, so at most L, and exactly L with has_more and a non-empty cursor
\* when no filter is given and more than L records remain; a client that
\* resubmits with every cursor it is given ends on a page with has_more false
\* having received every matching record of the store once, in scan order.
C11_PagesCoverTheMatchingRecords ==
    \A p \in Procs :
        Listed(p)
        => LET data == resp[p].body.data
               L == local[p].limit
               rest == FromCursor(p)
           IN  /\ PageIds(resp[p]) = AcceptedOf(p, SubSeq(rest, 1, Min(L, Len(rest))))
               /\ data.count <= L
               /\ (DOMAIN event[p].queryStringParameters
                        \subseteq {"limit", "last_evaluated_key"} /\ Len(rest) > L)
                  => /\ data.count = L
                     /\ data.has_more
                     /\ data.last_evaluated_key /= <<>>
               /\ ChainEnded(p) => Flatten(listing) = AcceptedOf(p, ScanOrder(table, 0))

\* (limit 2, three records of which the first page returns fewer than two; the
\* client has followed the cursor to the end)
C11_Witness ==
    \E p \in Procs :
        /\ ChainEnded(p)
        /\ local[p].limit = 2
        /\ Cardinality(DOMAIN table) = 3
        /\ Len(listing) = 2
        /\ Len(listing[1]) = 1
        /\ Len(Flatten(listing)) = 2

\* a cursor that a response of list_images can carry
WellFormedCursor(text) ==
    \E n \in 1..Len(IdNames) : text = JsonDumpsKey([image_id |-> IdNames[n]])

\* the listing p was given a last_evaluated_key that is not such a cursor
MalformedCursorGiven(p) ==
    /\ "last_evaluated_key" \in DOMAIN event[p].queryStringParameters
    /\ ~WellFormedCursor(event[p].queryStringParameters.last_evaluated_key)

\* C12: a listing given a malformed last_evaluated_key fails with
\* 400 INVALID_PAGINATION and executes no scan.
C12_MalformedCursorRejected ==
    \A p \in Procs :
        (Finished(p, "list") /\ MalformedCursorGiven(p))
        => /\ IsError(resp[p], 400, "INVALID_PAGINATION")
           /\ ~Issued(p, "scan")

----------------------------------------------------------------------------
(* The limit of a listing *)

\* the limit the caller of listing p requested is absent or an integer
LimitIsInteger(p) ==
    "limit" \in DOMAIN event[p].queryStringParameters
        => ParseInt(event[p].queryStringParameters.limit)[1]

\* 20 when absent, the requested integer clamped to 100 otherwise
EffectiveLimit(p) ==
    IF "limit" \notin DOMAIN event[p].queryStringParameters THEN 20
    ELSE LET requested == ParseInt(event[p].queryStringParameters.limit)[2]
         IN  IF requested > 100 THEN 100 ELSE requested

\* C13: a listing whose limit is absent or an integer scans with the effective
\* limit (20, or the requested value clamped to 100) and, the cursor being well
\* formed and the store answering, succeeds with at most that many records: a
\* requested integer never produces an error.
C13_LimitClampedNeverAnError ==
    \A p \in Procs :
        (Running(p, "list") /\ LimitIsInteger(p) /\ ~MalformedCursorGiven(p))
        => /\ pc[p] = "list_scan" => local[p].limit = EffectiveLimit(p)
           /\ (Done(p) /\ ~IssuedFailed(p, "scan"))
              => /\ resp[p].statusCode = 200
                 /\ resp[p].body.data.count <= EffectiveLimit(p)

----------------------------------------------------------------------------
(* The shape of a page *)

\* C14: in every successful list response count is the number of images,
\* scanned_count is at least count, and has_more is true exactly when the
\* response carries a last_evaluated_key.
C14_ListResponseConsistent ==
    \A p \in Procs :
        Listed(p)
        => LET data == resp[p].body.data
           IN  /\ data.count = Len(data.images)
               /\ data.scanned_count >= data.count
               /\ data.has_more <=> "last_evaluated_key" \in DOMAIN data

\* (a filtered page that read more records than it returns, with a cursor)
C14_Witness ==
    \E p \in Procs :
        /\ Listed(p)
        /\ resp[p].body.data.has_more
        /\ resp[p].body.data.count >= 1
        /\ resp[p].body.data.scanned_count > resp[p].body.data.count

\* the records that listing p left unscanned
Unscanned(p) ==
    LET rest == FromCursor(p)
    IN  {rest[i] : i \in (resp[p].body.data.scanned_count + 1)..Len(rest)}

\* C15: when a list response has has_more false, no record matching the
\* filters lies beyond the records scanned; a page with has_more true may be
\* empty while matching records remain unscanned.
C15_NoMoreMeansNothingLeft ==
    \A p \in Procs :
        (Listed(p) /\ ~resp[p].body.data.has_more)
        => \A id \in Unscanned(p) : ~Accepts(p, table[id])

\* (an empty page with has_more true, a matching record still unscanned)
C15_Witness ==
    \E p \in Procs :
        /\ Listed(p)
        /\ resp[p].body.data.count = 0
        /\ resp[p].body.data.has_more
        /\ \E id \in Unscanned(p) : Accepts(p, table[id])

\* a is before b as strings, and a = b excluded
StrictlyBefore(a, b) == a /= b /\ LexLeq(a, b)

\* created_at lies within the date bounds that listing p supplied, the bounds
\* themselves included
WithinBounds(p, created_at) ==
    LET q == event[p].queryStringParameters
    IN  /\ Criterion(p, "created_after")
            => created_at = q.created_after \/ StrictlyBefore(q.created_after, created_at)
        /\ Criterion(p, "created_before")
            => created_at = q.created_before \/ StrictlyBefore(created_at, q.created_before)

\* the listing p filters by date only
ByDateOnly(p) ==
    /\ DOMAIN event[p].queryStringParameters \subseteq {"created_after", "created_before"}
    /\ DOMAIN event[p].queryStringParameters /= {}

\* C16: a listing filtered by created_after and/or created_before returns a
\* scanned record exactly when its created_at is within the bounds under string
\* comparison, a record whose created_at equals a bound included.
C16_DateBoundsInclusive ==
    \A p \in Procs :
        (Listed(p) /\ ByDateOnly(p))
        => LET data == resp[p].body.data
           IN  {data.images[i].image_id : i \in 1..Len(data.images)}
               = {id \in Scanned(p, data) : WithinBounds(p, table[id].created_at)}

\* (both bounds equal to the created_at of a record, which is returned, while
\* an earlier and a later record are not)
C16_Witness ==
    \E p \in Procs :
        /\ Listed(p)
        /\ DOMAIN event[p].queryStringParameters = {"created_after", "created_before"}
        /\ resp[p].body.data.scanned_count = 3
        /\ resp[p].body.data.count = 1
        /\ resp[p].body.data.images[1].created_at
           = event[p].queryStringParameters.created_after
        /\ resp[p].body.data.images[1].created_at
           = event[p].queryStringParameters.created_before
        /\ \E id \in DOMAIN table :
              StrictlyBefore(table[id].created_at, event[p].queryStringParameters.created_after)
        /\ \E id \in DOMAIN table :
              StrictlyBefore(event[p].queryStringParameters.created_before, table[id].created_at)

----------------------------------------------------------------------------
(* upload_image *)

\* the parsed body of the upload p, when the body is a JSON object (the event
\* without body reads as {})
HasBody(p) == "body" \notin DOMAIN event[p] \/ event[p].body.type = "dict"
BodyOf(p) == IF "body" \in DOMAIN event[p] THEN event[p].body.v ELSE EmptyDict
MetadataOf(p) ==
    IF "metadata" \in DOMAIN BodyOf(p) THEN BodyOf(p).metadata ELSE Dict(EmptyDict)

\* the file of upload p is one that validate_image_file does not accept: it
\* answers invalid, or raises
FileInvalid(p) == ImageFileRaises(BodyOf(p)) \/ ~validate_image_file(BodyOf(p))[1]

\* the reason codes of the validations that the request of upload p fails
FailedValidations(p) ==
    IF ~HasBody(p)
    THEN IF event[p].body.type = "text" THEN {"INVALID_JSON"} ELSE {}
    ELSE {c \in {"INVALID_USER_ID"} : ~validate_user_id(DictGet(BodyOf(p), "user_id"))[1]}
         \cup {c \in {"INVALID_IMAGE"} : FileInvalid(p)}
         \cup {c \in {"INVALID_METADATA"} : ~validate_metadata(MetadataOf(p))[1]}

\* C17: an upload whose body is unparsable or whose user_id, file or metadata
\* fails validation ends with 400 and the reason code of a failed validation,
\* having issued no store call; the step that rejects it leaves the table and
\* the bucket as they were.
C17_ValidationIsAGate ==
    [][\A p \in Procs :
          (/\ pc'[p] = "done" /\ event'[p].op = "upload"
           /\ FailedValidations(p)' /= {})
          => /\ resp'[p].statusCode = 400
             /\ ReasonCode(resp'[p]) \in FailedValidations(p)'
             /\ calls'[p] = <<>>
             /\ nreq' /= nreq => StoresUnchanged]_vars

\* (a filename that is a number: the upload ends in 500, no store call issued)
C17_Witness ==
    \E p \in Procs :
        /\ Finished(p, "upload")
        /\ FailedValidations(p) = {"INVALID_IMAGE"}
        /\ IsError(resp[p], 500, "INTERNAL_ERROR")
        /\ calls[p] = <<>>

\* the upload p issues put_item in this step
PutsItem(p) ==
    /\ Len(calls'[p]) = Len(calls[p]) + 1
    /\ calls'[p][Len(calls'[p])].call = "put_item"

\* C18: upload_image issues put_item only after its put_object has succeeded
\* and the blob is in the bucket; it answers 201 only in the step that writes
\* the record, under an image_id that no record of the table had, and then the
\* record and the blob at the record's s3_key both exist.
C18_BlobFirstThenRecord ==
    [][\A p \in Procs :
          /\ PutsItem(p)
             => /\ calls[p] = <<Call("put_object", TRUE)>>
                /\ local[p].s3_key \in DOMAIN bucket
          /\ (pc[p] /= "done" /\ pc'[p] = "done" /\ event'[p].op = "upload"
              /\ resp'[p].statusCode = 201)
             => LET image_id == resp'[p].body.data.image_id
                IN  /\ PutsItem(p)
                    /\ image_id \notin DOMAIN table
                    /\ image_id \in DOMAIN table'
                    /\ \A other \in DOMAIN table : table'[other] = table[other]
                    /\ table'[image_id].s3_key \in DOMAIN bucket']_vars

\* (an upload completed with 201 beside a record stored earlier)
C18_Witness ==
    \E p \in Procs :
        /\ Finished(p, "upload")
        /\ resp[p].statusCode = 201
        /\ Cardinality(DOMAIN table) = 2
        /\ resp[p].body.data.image_id \in DOMAIN table
        /\ calls[p] = <<Call("put_object", TRUE), Call("put_item", TRUE)>>

\* C19: an upload with a valid user_id and file whose metadata is absent in any
\* form that validate_metadata accepts (key missing, null, empty), the stores
\* answering, completes with 201 and stores the blob and a record without
\* title, description, tags and location.
C19_AbsentMetadataIsAccepted ==
    \A p \in Procs :
        (/\ Finished(p, "upload") /\ HasBody(p)
         /\ FailedValidations(p) = {}
         /\ MetaFalsy(MetadataOf(p))
         /\ ~IssuedFailed(p, "put_object") /\ ~IssuedFailed(p, "put_item"))
        => /\ resp[p].statusCode = 201
           /\ LET image_id == resp[p].body.data.image_id
              IN  /\ image_id \in DOMAIN table
                  /\ DOMAIN table[image_id]
                        \cap {"title", "description", "tags", "location"} = {}
                  /\ table[image_id].s3_key \in DOMAIN bucket

\* (metadata null: the blob is written, no record, the answer is 500)
C19_Witness ==
    \E p \in Procs :
        /\ Finished(p, "upload") /\ HasBody(p)
        /\ MetadataOf(p) = Null
        /\ calls[p] = <<Call("put_object", TRUE)>>
        /\ IsError(resp[p], 500, "INTERNAL_ERROR")
        /\ \E key \in DOMAIN bucket : \A id \in DOMAIN table : table[id].s3_key /= key

----------------------------------------------------------------------------
(* The response envelope *)

\* the reason codes that go with a status
CodesOf(status) ==
    CASE status = 400 -> {"INVALID_IMAGE_ID", "INVALID_USER_ID", "INVALID_IMAGE",
                          "INVALID_METADATA", "INVALID_PARAMETER", "INVALID_PAGINATION",
                          "INVALID_JSON"}
      [] status = 403 -> {"FORBIDDEN"}
      [] status = 404 -> {"IMAGE_NOT_FOUND", "FILE_NOT_FOUND"}
      [] status = 500 -> {"INTERNAL_ERROR"}
      [] OTHER -> {}

\* r is {data, message?} for a success and {error: {message, code?}} with a
\* code that goes with the status for an error
Wrapped(r) ==
    IF r.statusCode \in {200, 201}
    THEN DOMAIN r.body \in {{"data"}, {"data", "message"}}
    ELSE /\ DOMAIN r.body = {"error"}
         /\ DOMAIN r.body.error \in {{"message"}, {"message", "code"}}
         /\ "code" \in DOMAIN r.body.error => r.body.error.code \in CodesOf(r.statusCode)

\* C20 as stated: every response of the four handlers is wrapped.
C20_EveryResponseWrapped ==
    \A p \in Procs : Done(p) => Wrapped(resp[p])

\* C20 (amended): every response of the four handlers is wrapped, except the
\* successful download of get_image, whose body is the object
\* {image_id, filename, content_type, image_data} itself, without data.
C20_WrappedExceptDownload ==
    \A p \in Procs :
        Done(p)
        => IF event[p].op = "get" /\ WantsDownload(p) /\ resp[p].statusCode = 200
           THEN DOMAIN resp[p].body = {"image_id", "filename", "content_type", "image_data"}
           ELSE Wrapped(resp[p])

\* (a download answered 200)
C20_Witness ==
    \E p \in Procs :
        /\ Finished(p, "get")
        /\ WantsDownload(p)
        /\ IssuedOk(p, "get_object")
        /\ resp[p].statusCode = 200
        /\ "image_data" \in DOMAIN resp[p].body

----------------------------------------------------------------------------
(* Upload, then download *)

\* the content type that goes with a filename: by its last extension, whatever
\* its case
TypeOfFilename(f) ==
    LET ext == Lower(f[Len(f)])
    IN  CASE ext = "png" -> "image/png"
          [] ext \in {"jpg", "jpeg"} -> "image/jpeg"
          [] ext = "gif" -> "image/gif"
          [] ext = "webp" -> "image/webp"
          [] OTHER -> "application/octet-stream"

\* what the upload of slot 1 sent
SentBody == event[1].body.v

\* C21: after an upload of bytes B answered 201, a get of the returned image_id
\* with download=true (nothing deleted in between, no store call of the get
\* failing) answers 200 with image data that decodes to exactly B, with the
\* uploaded filename and with the content type that goes with its extension.
C21_DownloadReturnsTheUpload ==
    \A p \in Procs \ {1} :
        (/\ Finished(p, "get")
         /\ WantsDownload(p)
         /\ Uploaded
         /\ PathId(p) = Returned
         /\ ~IssuedFailed(p, "get_item")
         /\ ~IssuedFailed(p, "get_object"))
        => /\ resp[p].statusCode = 200
           /\ IsBase64(resp[p].body.image_data)
           /\ b64decode(resp[p].body.image_data) = b64decode(SentBody.image_data)
           /\ resp[p].body.filename = SentBody.filename
           /\ resp[p].body.content_type = TypeOfFilename(SentBody.filename)
           /\ resp[p].body.image_id = Returned

\* (a download of an upload of the bytes b2 under an upper-case extension)
C21_Witness ==
    \E p \in Procs \ {1} :
        /\ Finished(p, "get")
        /\ WantsDownload(p)
        /\ Uploaded
        /\ PathId(p) = Returned
        /\ resp[p].statusCode = 200
        /\ SentBody.image_data = b64encode("b2")
        /\ SentBody.filename = <<"b", "x", "JPG">>
        /\ resp[p].body.image_data = b64encode("b2")

----------------------------------------------------------------------------
(* Identifiers *)

\* a non-empty string of at most 128 characters
Acceptable(v) == IsStr(v) /\ StrLen(v) >= 1 /\ StrLen(v) <= 128

\* the user_id of an upload's body
BodyUser(p) == DictGet(event[p].body.v, "user_id")

\* C22: validate_image_id and validate_user_id accept exactly the non-empty
\* strings of at most 128 characters (128 included) and reject absent, empty,
\* non-string and longer values; get and delete answer a rejected image_id with
\* 400 INVALID_IMAGE_ID, upload answers a rejected user_id with 400
\* INVALID_USER_ID, in both cases without having issued a store call.
C22_IdentifierValidation ==
    /\ \A v \in IdValues :
        /\ validate_image_id(v)[1] <=> Acceptable(v)
        /\ validate_user_id(v)[1] <=> Acceptable(v)
    /\ \A p \in Procs :
        /\ Done(p) /\ event[p].op \in {"get", "delete"}
           => /\ IsError(resp[p], 400, "INVALID_IMAGE_ID") <=> ~Acceptable(PathId(p))
              /\ ~Acceptable(PathId(p)) => calls[p] = <<>>
        /\ Done(p) /\ event[p].op = "upload"
           => /\ IsError(resp[p], 400, "INVALID_USER_ID") <=> ~Acceptable(BodyUser(p))
              /\ ~Acceptable(BodyUser(p)) => calls[p] = <<>>

\* (an upload under a user_id of exactly 128 characters has written its record,
\*  and a get whose image_id has 129 characters is rejected)
C22_Witness ==
    /\ \E id \in DOMAIN table : table[id].user_id = Str128
    /\ \E p \in Procs :
        /\ Finished(p, "get")
        /\ PathId(p) = LongStr
        /\ IsError(resp[p], 400, "INVALID_IMAGE_ID")

----------------------------------------------------------------------------
(* The limits of the metadata *)

\* a field of the metadata object d is past its limit
PastLimits(d) ==
    \/ "title" \in DOMAIN d /\ Len(d.title) > 256
    \/ "description" \in DOMAIN d /\ Len(d.description) > 2048
    \/ "tags" \in DOMAIN d /\ Len(d.tags) > 20
    \/ "tags" \in DOMAIN d /\ \E i \in 1..Len(d.tags) : Len(d.tags[i]) > 50

\* C23: validate_metadata rejects a metadata object with more than 20 tags, a
\* tag of more than 50 characters, a title of more than 256 or a description of
\* more than 2048 characters, and accepts the values at the limits (20 tags, 50,
\* 256 and 2048 characters); an upload with a valid user_id and file is
\* answered 400 INVALID_METADATA exactly when a field is past its limit.
C23_MetadataLimits ==
    /\ \A m \in LimitMetadata : validate_metadata(m)[1] <=> ~PastLimits(m.v)
    /\ \A p \in Procs :
        (/\ Finished(p, "upload")
         /\ HasBody(p)
         /\ MetadataOf(p) \in LimitMetadata
         /\ validate_user_id(DictGet(BodyOf(p), "user_id"))[1]
         /\ ~FileInvalid(p))
        => /\ IsError(resp[p], 400, "INVALID_METADATA") <=> PastLimits(MetadataOf(p).v)
           /\ resp[p].statusCode = 201
              => \E id \in DOMAIN table :
                    /\ id = resp[p].body.data.image_id
                    /\ \A k \in DOMAIN MetadataOf(p).v : table[id][k] = MetadataOf(p).v[k]

\* (an upload whose title, description, tag count and tag lengths are all at
\*  their limits is stored)
C23_Witness ==
    \E p \in Procs :
        /\ Finished(p, "upload")
        /\ HasBody(p)
        /\ resp[p].statusCode = 201
        /\ "title" \in DOMAIN MetadataOf(p).v /\ Len(MetadataOf(p).v.title) = 256
        /\ "description" \in DOMAIN MetadataOf(p).v
        /\ Len(MetadataOf(p).v.description) = 2048
        /\ Len(MetadataOf(p).v.tags) = 20
        /\ \A i \in 1..20 : Len(MetadataOf(p).v.tags[i]) = 50

----------------------------------------------------------------------------
(* Failures of the stores *)

StoreCalls ==
    {"get_item", "get_object", "generate_presigned_url", "delete_object",
     "delete_item", "put_object", "put_item", "scan"}

\* the failures that a handler tolerates: the blob delete of delete_image and
\* the URL generation of get_image
SoftCalls == {"delete_object", "generate_presigned_url"}

\* the calls of request p that failed
FailedCalls(p) == {calls[p][i].call : i \in {j \in 1..Len(calls[p]) : ~calls[p][j].ok}}

\* C24: every invocation ends with one response (none while it runs, one with
\* a status once it has returned); a store call that fails, other than the two
\* tolerated ones, ends the invocation with 500 INTERNAL_ERROR and is the last
\* call it issued; no store call is issued twice by one invocation.
C24_OneResponseNoRetry ==
    \A p \in Procs :
        /\ pc[p] \notin {"idle", "done"} => resp[p] = EmptyDict
        /\ Done(p) => resp[p].statusCode \in {200, 201, 400, 403, 404, 500}
        /\ \A c \in StoreCalls : Count(p, c) <= 1
        /\ \A i \in 1..Len(calls[p]) :
            ~calls[p][i].ok /\ calls[p][i].call \notin SoftCalls
            => /\ i = Len(calls[p])
               /\ Done(p)
               /\ IsError(resp[p], 500, "INTERNAL_ERROR")
        /\ \A i \in 1..Len(calls[p]) : calls[p][i].call \in StoreCalls

\* (a delete whose blob delete failed and whose record delete failed: the
\*  first is tolerated, the second answered 500, each issued once)
C24_Witness ==
    \E p \in Procs :
        /\ Finished(p, "delete")
        /\ FailedCalls(p) = {"delete_object", "delete_item"}
        /\ Len(calls[p]) = 3
        /\ IsError(resp[p], 500, "INTERNAL_ERROR")

----------------------------------------------------------------------------
(* The order of the steps of delete_image *)

DeleteSteps == <<"get_item", "delete_object", "delete_item">>

\* the lookup of delete p found a record that the request may delete
Authorized(p) ==
    /\ Found(p)
    /\ ~(Truthy(QueryUser(p)) /\ local[p].item.user_id /= QueryUser(p))

\* C25: delete_image issues its store calls in the order lookup, blob delete,
\* record delete.  The blob delete is issued only after the lookup found the
\* record and the authorization passed; the record delete only after the blob
\* delete has returned; a delete that passed the authorization has attempted
\* both deletes exactly once when it returns, whatever the blob delete's
\* outcome; and it answers 200 only after the record delete has returned
\* successfully.
C25_DeleteStepOrder ==
    \A p \in Procs :
        Running(p, "delete")
        => /\ Len(calls[p]) <= 3
           /\ \A i \in 1..Len(calls[p]) : calls[p][i].call = DeleteSteps[i]
           /\ Len(calls[p]) >= 2 => calls[p][1].ok /\ Authorized(p)
           /\ pc[p] = "delete_delete_object" => Len(calls[p]) = 1 /\ Authorized(p)
           /\ pc[p] = "delete_delete_item" => Len(calls[p]) = 2
           /\ Done(p) /\ Authorized(p) => Len(calls[p]) = 3
           /\ Done(p) /\ resp[p].statusCode = 200
              => Len(calls[p]) = 3 /\ calls[p][3].ok

\* (a delete answered 200 although its blob delete failed)
C25_Witness ==
    \E p \in Procs :
        /\ Finished(p, "delete")
        /\ resp[p].statusCode = 200
        /\ calls[p] = <<Call("get_item", TRUE), Call("delete_object", FALSE),
                        Call("delete_item", TRUE)>>

----------------------------------------------------------------------------
(* delete_image and an empty user_id *)

\* the user_id of delete p is present and empty
EmptyUser(p) ==
    /\ "user_id" \in DOMAIN event[p].queryStringParameters
    /\ event[p].queryStringParameters.user_id = ""

\* C30: a delete whose user_id is present but empty is treated like one without
\* user_id: the gate answers as for an absent user_id on every table, the
\* request is never refused with 403, and once its lookup found the record it
\* attempts both deletes whoever owns the record, answering 200 with the record
\* removed unless the record delete fails; and no delete, whatever its user_id,
\* answers INVALID_USER_ID.
C30_EmptyUserIdSkipsAuthorization ==
    /\ \A id \in ImageIds : DeleteGate(id, "", table) = DeleteGate(id, None, table)
    /\ \A p \in Procs :
        Finished(p, "delete")
        => /\ ReasonCode(resp[p]) /= "INVALID_USER_ID"
           /\ EmptyUser(p)
              => /\ resp[p].statusCode /= 403
                 /\ Found(p)
                    => /\ Len(calls[p]) = 3
                       /\ IF IssuedFailed(p, "delete_item")
                          THEN IsError(resp[p], 500, "INTERNAL_ERROR")
                          ELSE /\ resp[p].statusCode = 200
                               /\ PathId(p) \notin DOMAIN table

\* (a delete with an empty user_id has removed the record of user B)
C30_Witness ==
    \E p \in Procs :
        /\ Finished(p, "delete")
        /\ EmptyUser(p)
        /\ Found(p)
        /\ local[p].item.user_id = "B"
        /\ resp[p].statusCode = 200
        /\ PathId(p) \notin DOMAIN table

----------------------------------------------------------------------------
(* A full traversal *)

\* the client of listing p has read its last page and holds every matching
\* record of the store exactly once, in scan order
TraversalComplete(p) ==
    /\ ChainEnded(p)
    /\ Flatten(listing) = AcceptedOf(p, ScanOrder(table, 0))
    /\ \A i, j \in 1..Len(Flatten(listing)) :
          Flatten(listing)[i] = Flatten(listing)[j] => i = j

\* a scan of the traversal failed: the client is answered 500 and holds no
\* cursor to go on with
TraversalBroken(p) == Finished(p, "list") /\ IsError(resp[p], 500, "INTERNAL_ERROR")

\* C26: with no writes to the store, a client that starts without cursor and
\* resubmits the same filter and limit (at least 1) with each cursor it is
\* given reaches, after finitely many requests, a page with has_more false,
\* and the pages it has read then contain every matching record exactly once,
\* unless a scan fails on the way.
C26_TraversalEndsWithEveryRecord ==
    <>(\E p \in Procs : TraversalComplete(p) \/ TraversalBroken(p))

\* (three records read one per page, the store returning a cursor with the
\*  last of them: the fourth page is empty and ends the traversal)
C26_Witness ==
    \E p \in Procs :
        /\ TraversalComplete(p)
        /\ Len(listing) = 4
        /\ listing[4] = <<>>
        /\ Len(Flatten(listing)) = 3

----------------------------------------------------------------------------
(* Races *)

\* the bytes that the owner of a record uploaded
UploadedBytes(item) == b64decode(RaceBody(item.user_id).image_data)

\* the blob of image id is in the bucket
BlobPresent(id) == \E key \in DOMAIN bucket : key[3] = id

\* C27: a get with download=true that runs concurrently with a delete of the
\* same image, no store call of the get failing, ends with 200 carrying the
\* bytes that were uploaded, with 404 IMAGE_NOT_FOUND or with 404
\* FILE_NOT_FOUND; never with 500, never with 200 and other or empty data.
C27_GetRacingDelete ==
    \A p \in Procs :
        (Finished(p, "get") /\ WantsDownload(p) /\ FailedCalls(p) = {})
        => \/ /\ resp[p].statusCode = 200
              /\ Found(p)
              /\ resp[p].body.image_id = PathId(p)
              /\ IsBase64(resp[p].body.image_data)
              /\ b64decode(resp[p].body.image_data) = UploadedBytes(local[p].item)
           \/ IsError(resp[p], 404, "IMAGE_NOT_FOUND") /\ ~Found(p)
           \/ IsError(resp[p], 404, "FILE_NOT_FOUND") /\ Found(p)

\* (the get found the record, a delete of the same image then removed the blob
\*  and has not yet removed the record: the get is answered FILE_NOT_FOUND)
C27_Witness ==
    \E p, q \in Procs :
        /\ Finished(p, "get")
        /\ IsError(resp[p], 404, "FILE_NOT_FOUND")
        /\ FailedCalls(p) = {}
        /\ Running(q, "delete")
        /\ pc[q] = "delete_delete_item"
        /\ PathId(q) = PathId(p)
        /\ PathId(p) \in DOMAIN table

\* C28: two deletes of the same existing image that both pass the
\* authorization and whose store calls all succeed end each with 200 or with
\* 404 IMAGE_NOT_FOUND, never with 500, and when both have returned the record
\* and the blob of the image are absent.
C28_ConcurrentDeletes ==
    \A p, q \in Procs :
        (/\ p /= q
         /\ Finished(p, "delete") /\ Finished(q, "delete")
         /\ PathId(p) = PathId(q)
         /\ Found(p) \/ Found(q)
         /\ resp[p].statusCode /= 403 /\ resp[q].statusCode /= 403
         /\ FailedCalls(p) = {} /\ FailedCalls(q) = {})
        => /\ \A r \in {p, q} :
                resp[r].statusCode = 200 \/ IsError(resp[r], 404, "IMAGE_NOT_FOUND")
           /\ PathId(p) \notin DOMAIN table
           /\ ~BlobPresent(PathId(p))

\* (both deletes found the record before either removed it: both answer 200)
C28_Witness ==
    \E p, q \in Procs :
        /\ p /= q
        /\ Finished(p, "delete") /\ Finished(q, "delete")
        /\ PathId(p) = PathId(q)
        /\ FailedCalls(p) = {} /\ FailedCalls(q) = {}
        /\ resp[p].statusCode = 200 /\ resp[q].statusCode = 200
        /\ PathId(p) \notin DOMAIN table
        /\ ~BlobPresent(PathId(p))

----------------------------------------------------------------------------
(* Records and blobs under concurrent uploads *)

\* upload p has returned leaving its blob in the bucket and no record
LeftBlobOnly(p) ==
    /\ Finished(p, "upload")
    /\ "s3_key" \in DOMAIN local[p]
    /\ local[p].s3_key \in DOMAIN bucket
    /\ local[p].image_id \notin DOMAIN table

\* C29 as stated: under concurrent uploads with arbitrary store failures every
\* record has its blob in the bucket; an upload leaves a blob without a record
\* only when its record write failed after its blob write, and it is then
\* answered 500; an upload answered 201 has written both.
C29_OnlyAFailedRecordWriteLeavesABlob ==
    /\ \A id \in DOMAIN table : table[id].s3_key \in DOMAIN bucket
    /\ \A p \in Procs :
        /\ LeftBlobOnly(p)
           => /\ calls[p] = <<Call("put_object", TRUE), Call("put_item", FALSE)>>
              /\ IsError(resp[p], 500, "INTERNAL_ERROR")
        /\ Finished(p, "upload") /\ resp[p].statusCode = 201
           => /\ local[p].image_id \in DOMAIN table
              /\ local[p].s3_key \in DOMAIN bucket

\* (an upload has left a blob without a record although no store call failed:
\*  its metadata was null, and building the record raised after the blob write)
C29_Witness ==
    \E p \in Procs :
        /\ LeftBlobOnly(p)
        /\ calls[p] = <<Call("put_object", TRUE)>>
        /\ IsError(resp[p], 500, "INTERNAL_ERROR")
        /\ \E q \in Procs : q /= p /\ Running(q, "upload")

====
